---- MODULE Spec2Model ----
(***************************************************************************)
(* A model of the outline-numbering scripts of SpecRebuilder: the hybrid   *)
(* numbering detector, the list analyzers that consume its report, the     *)
(* converters and rebuilders that consume theirs, the content block        *)
(* extractors, the text comparison validator and the text-file numbering   *)
(* matchers.                                                               *)
(*                                                                         *)
(* A Python str is modelled as a sequence of one-character strings, so     *)
(* <<"1", ".", "0">> is the token "1.0".  Every regular expression of the  *)
(* source is written out as an operator on such sequences.                 *)
(***************************************************************************)
EXTENDS Integers, Sequences, FiniteSets, TLC

VARIABLES
    wordDoc,            \* the Word document: one record per paragraph (COM view)
    paragraphs,         \* detector: List[NumberedParagraph]
    sample_paragraphs,  \* detector report['sample_paragraphs']
    all_paragraphs,     \* detector report['all_paragraphs']
    content_blocks,     \* detector report['content_blocks']
    enhanced_blocks,    \* EnhancedListAnalyzer report['enhanced_blocks']
    flexible_blocks,    \* FlexibleListAnalyzer report['flexible_blocks']
    simple_blocks,      \* simple_enhanced_analyzer report['enhanced_blocks']
    txtLines,           \* the expected-numbering text file, one entry per line
    expected_numbering, \* ComprehensiveNumberingAnalyzer.load_expected_numbering
    text_lines,         \* NumberingPatternMatcher.extract_numbering_from_text
    numbered_lines,     \* DirectTextMatcher.extract_numbering_from_text
    complete_docx,      \* CompleteXMLReconstructor: the numbering.xml and document.xml it writes
    template_docx,      \* template_based_rebuilder: the numbering.xml and document.xml it writes
    enhanced_simple,    \* convert_enhanced_to_simple: the paragraphs of the file it writes
    flexible_simple,    \* convert_flexible_to_simple: the paragraphs of the file it writes
    docx,               \* a .docx file: one record per paragraph (python-docx view)
    extractor_blocks,   \* ContentBlockExtractor.blocks
    simple_extractor_blocks, \* SimpleContentExtractor.blocks
    word_lines,         \* compare_texts: its argument word_lines
    file_lines,         \* compare_texts: its argument text_lines
    validation,         \* compare_texts: the ValidationResult it returns
    done,               \* the set of steps that have run
    raised              \* the steps among them that ended in an exception

\* what the converters, the rebuilders, the extractors and the validator
\* read and write
toolVars == <<complete_docx, template_docx, enhanced_simple, flexible_simple, docx,
              extractor_blocks, simple_extractor_blocks, word_lines, file_lines, validation>>

vars == <<wordDoc, paragraphs, sample_paragraphs, all_paragraphs, content_blocks,
          enhanced_blocks, flexible_blocks, simple_blocks, txtLines, expected_numbering,
          text_lines, numbered_lines, toolVars, done, raised>>

(***************************************************************************)
(* Python values                                                           *)
(***************************************************************************)

\* None where the source holds Optional[int] (a level): levels are >= 0.
NoLevel == -1

\* None where the source holds Optional[str]; no str is this sequence, since
\* every element of a str is a single character.
NoneStr == <<"None">>

\* bool(s) for s: Optional[str]
Truthy(s) == s # NoneStr /\ s # <<>>

\* a or b, for Optional[str] operands
StrOr(a, b) == IF Truthy(a) THEN a ELSE b

\* the value of a key that a paragraph record of the report does not have; no
\* str is this sequence
Missing == <<"Missing">>

\* para.get(key, default), for v the value of the key in the record
Get(v, default) == IF v = Missing THEN default ELSE v

(***************************************************************************)
(* Character classes of the regular expressions                            *)
(***************************************************************************)

Digit == {"0", "1", "2", "3", "4", "5", "6", "7", "8", "9"}

Upper == {"A", "B", "C", "D", "E", "F", "G", "H", "I", "J", "K", "L", "M",
          "N", "O", "P", "Q", "R", "S", "T", "U", "V", "W", "X", "Y", "Z"}

Lower == {"a", "b", "c", "d", "e", "f", "g", "h", "i", "j", "k", "l", "m",
          "n", "o", "p", "q", "r", "s", "t", "u", "v", "w", "x", "y", "z"}

\* \s, and the characters str.strip() removes
Space == {" ", "\t", "\n", "\r"}

\* \w
WordChar == Digit \cup Upper \cup Lower \cup {"_"}

\* [ivxlcdm] and the same class under re.IGNORECASE
RomanLower == {"i", "v", "x", "l", "c", "d", "m"}
RomanAnyCase == RomanLower \cup {"I", "V", "X", "L", "C", "D", "M"}

\* [ivx]
RomanIVX == {"i", "v", "x"}

(***************************************************************************)
(* str operations                                                          *)
(***************************************************************************)

\* s[i-1] in Python terms, "" past either end
At(s, i) == IF i \in 1..Len(s) THEN s[i] ELSE ""

\* s[n:]
Drop(s, n) == SubSeq(s, n + 1, Len(s))

\* s[:n]
Take(s, n) == SubSeq(s, 1, n)

\* s.startswith(p)
StartsWith(s, p) == Len(p) <= Len(s) /\ Take(s, Len(p)) = p

\* the index after the longest run of characters of class C that starts at i
RECURSIVE RunEnd(_, _, _)
RunEnd(s, i, C) == IF At(s, i) \in C THEN RunEnd(s, i + 1, C) ELSE i

\* the index before the longest run of characters of class C that ends at i
RECURSIVE RunStart(_, _, _)
RunStart(s, i, C) == IF At(s, i) \in C THEN RunStart(s, i - 1, C) ELSE i

\* s.lstrip(), s.rstrip(), s.strip()
LStrip(s) == Drop(s, RunEnd(s, 1, Space) - 1)
RStrip(s) == Take(s, RunStart(s, Len(s), Space))
Strip(s) == RStrip(LStrip(s))

\* s.rstrip(chars)
RStripChars(s, C) == Take(s, RunStart(s, Len(s), C))

\* s.find(sep) + 1: the index of the first occurrence of sep in s, 0 if none
Find(s, sep) ==
    LET hits == {i \in 1..(Len(s) - Len(sep) + 1) : SubSeq(s, i, i + Len(sep) - 1) = sep}
    IN  IF hits = {} THEN 0 ELSE CHOOSE i \in hits : \A j \in hits : i <= j

\* s.split(sep, 1) when sep occurs in s: the parts before and after its first occurrence
SplitOnce(s, sep) ==
    LET i == Find(s, sep)
    IN  <<Take(s, i - 1), Drop(s, i + Len(sep) - 1)>>

\* re.sub(r'[^\w]', '', s)
RemoveNonWord(s) == SelectSeq(s, LAMBDA c : c \in WordChar)

\* $ of a pattern without re.MULTILINE: the end, or just before a final newline
AtEnd(s, i) == i = Len(s) + 1 \/ (i = Len(s) /\ s[i] = "\n")

\* ^C+$ : s is a non-empty run of characters of class C
AllOf(s, C) == LET e == RunEnd(s, 1, C) IN e > 1 /\ AtEnd(s, e)

(***************************************************************************)
(* Token prefixes shared by the pattern tables.  Each gives the index just *)
(* after the token when the regular expression matches at the start of s,  *)
(* and 0 when it does not.                                                 *)
(***************************************************************************)

\* ^\d+\.0
TokEnd_DotZero(s) ==
    LET d == RunEnd(s, 1, Digit)
    IN  IF d > 1 /\ At(s, d) = "." /\ At(s, d + 1) = "0" THEN d + 2 ELSE 0

\* ^\d+\.\d+  (both runs greedy)
TokEnd_DotDigits(s) ==
    LET d == RunEnd(s, 1, Digit)
        e == RunEnd(s, d + 1, Digit)
    IN  IF d > 1 /\ At(s, d) = "." /\ e > d + 1 THEN e ELSE 0

\* ^\d+\.
TokEnd_DigitsDot(s) ==
    LET d == RunEnd(s, 1, Digit)
    IN  IF d > 1 /\ At(s, d) = "." THEN d + 1 ELSE 0

\* ^[C]\.  for a character class C
TokEnd_OneDot(s, C) == IF At(s, 1) \in C /\ At(s, 2) = "." THEN 3 ELSE 0

\* ^[C]+\.  for a character class C
TokEnd_RunDot(s, C) ==
    LET r == RunEnd(s, 1, C)
    IN  IF r > 1 /\ At(s, r) = "." THEN r + 1 ELSE 0

(***************************************************************************)
(* ComprehensiveNumberingAnalyzer                                          *)
(***************************************************************************)

\* determine_level_from_numbering with its first two tests in the other order;
\* C6 tells the two apart.
determine_level_from_numbering_swapped(numbering) ==
    IF      TokEnd_DotDigits(numbering) > 0 /\ AtEnd(numbering, TokEnd_DotDigits(numbering)) THEN 1
    ELSE IF TokEnd_DotZero(numbering) > 0 /\ AtEnd(numbering, TokEnd_DotZero(numbering)) THEN 0
    ELSE IF TokEnd_OneDot(numbering, Upper) > 0 /\ AtEnd(numbering, 3) THEN 2
    ELSE IF TokEnd_DigitsDot(numbering) > 0 /\ AtEnd(numbering, TokEnd_DigitsDot(numbering)) THEN 3
    ELSE IF TokEnd_OneDot(numbering, Lower) > 0 /\ AtEnd(numbering, 3) THEN 4
    ELSE IF TokEnd_RunDot(numbering, RomanAnyCase) > 0
            /\ AtEnd(numbering, TokEnd_RunDot(numbering, RomanAnyCase)) THEN 5
    ELSE NoLevel

\* determine_level_from_numbering: an if/elif chain of re.match tests
determine_level_from_numbering(numbering) ==
    IF      TokEnd_DotZero(numbering) > 0 /\ AtEnd(numbering, TokEnd_DotZero(numbering)) THEN 0
    ELSE IF TokEnd_DotDigits(numbering) > 0 /\ AtEnd(numbering, TokEnd_DotDigits(numbering)) THEN 1
    ELSE IF TokEnd_OneDot(numbering, Upper) > 0 /\ AtEnd(numbering, 3) THEN 2
    ELSE IF TokEnd_DigitsDot(numbering) > 0 /\ AtEnd(numbering, TokEnd_DigitsDot(numbering)) THEN 3
    ELSE IF TokEnd_OneDot(numbering, Lower) > 0 /\ AtEnd(numbering, 3) THEN 4
    ELSE IF TokEnd_RunDot(numbering, RomanAnyCase) > 0
            /\ AtEnd(numbering, TokEnd_RunDot(numbering, RomanAnyCase)) THEN 5
    ELSE NoLevel

\* The lines load_expected_numbering and the extract_numbering_from_text loops skip
SkippedLines ==
    { <<>>,
      <<"S","E","C","T","I","O","N"," ","0","0"," ","0","0"," ","0","0">>,
      <<"S","E","C","T","I","O","N"," ","T","I","T","L","E">>,
      <<"E","N","D"," ","O","F"," ","S","E","C","T","I","O","N">> }

\* line.split('\t'): the first two parts (the loop reads no others)
SplitTabs(line) ==
    LET first == SplitOnce(line, <<"\t">>)
        rest  == first[2]
    IN  <<first[1], IF Find(rest, <<"\t">>) = 0 THEN rest ELSE SplitOnce(rest, <<"\t">>)[1]>>

\* load_expected_numbering, the body of its loop for line number i: the entries
\* it appends
load_expected_line(i, raw) ==
    LET line == Strip(raw)
    IN  IF line \in SkippedLines \/ Find(line, <<"\t">>) = 0 THEN <<>>
        ELSE LET parts == SplitTabs(line)
                 expected_number == Strip(parts[1])
             IN  << [ line_number     |-> i,
                      expected_number |-> expected_number,
                      content         |-> Strip(parts[2]),
                      level           |-> determine_level_from_numbering(expected_number) ] >>

(***************************************************************************)
(* looks_like_numbering and determine_level(_manual), which are the same   *)
(* text in DirectTextMatcher and NumberingPatternMatcher                   *)
(***************************************************************************)

Letter == Upper \cup Lower

\* looks_like_numbering: every pattern is matched with re.IGNORECASE
looks_like_numbering(text) ==
    LET clean_text == RemoveNonWord(text)
        d          == RunEnd(clean_text, 1, Digit)
        l          == RunEnd(clean_text, 1, Letter)
    IN  \/ AllOf(clean_text, Digit)                                    \* ^\d+$
        \/ AllOf(clean_text, Letter)                                   \* ^[A-Z]+$, ^[a-z]+$
        \/ AllOf(clean_text, RomanAnyCase)                             \* ^[ivxlcdm]+$
        \/ (d > 1 /\ RunEnd(clean_text, d, Letter) > d
                  /\ AtEnd(clean_text, RunEnd(clean_text, d, Letter))) \* ^\d+[A-Z]+$
        \/ (l > 1 /\ RunEnd(clean_text, l, Digit) > l
                  /\ AtEnd(clean_text, RunEnd(clean_text, l, Digit)))  \* ^[A-Z]+\d+$

\* determine_level / determine_level_manual
determine_level(numbering) ==
    LET clean_num == RemoveNonWord(numbering)
    IN  IF      AllOf(clean_num, Digit) /\ Len(clean_num) >= 2
                /\ At(clean_num, RunEnd(clean_num, 1, Digit) - 1) = "0" THEN 0  \* ^\d+0$
        ELSE IF AllOf(clean_num, Digit) /\ Len(clean_num) >= 2 THEN 1           \* ^\d+\d+$
        ELSE IF AllOf(clean_num, Upper) THEN 2                                  \* ^[A-Z]+$
        ELSE IF AllOf(clean_num, Digit) THEN 3                                  \* ^\d+$
        ELSE IF AllOf(clean_num, Lower) THEN 4                                  \* ^[a-z]+$
        ELSE IF AllOf(clean_num, RomanAnyCase) THEN 5                           \* ^[ivxlcdm]+$
        ELSE NoLevel

\* the index of the first newline at or after i, Len(s) + 1 if there is none
RECURSIVE LineEnd(_, _)
LineEnd(s, i) == IF At(s, i) = "" \/ At(s, i) = "\n" THEN i ELSE LineEnd(s, i + 1)

(***************************************************************************)
(* DirectTextMatcher                                                       *)
(***************************************************************************)

\* \s+(.+) from index k of s: the text group 2 captures, NoneStr when the rest
\* of the pattern cannot match.  \s+ is greedy and gives characters back only
\* when nothing is left for (.+), which takes anything but a newline.
TailAfterSpaces(s, k) ==
    LET ws    == RunEnd(s, k, Space)
        start == {j \in (k + 1)..ws : At(s, j) # "" /\ At(s, j) # "\n"}
    IN  IF start = {} THEN NoneStr
        ELSE LET j == CHOOSE x \in start : \A y \in start : y <= x
             IN  SubSeq(s, j, LineEnd(s, j) - 1)

\* separators, in the order extract_numbering_from_line tries them
DTM_separators ==
    << <<"\t">>, <<" ", " ">>, <<" ", "-", " ">>, <<" ", "-">>, <<"-", " ">>,
       <<" ", ")">>, <<")", " ">>, <<" ", "]">>, <<"]", " ">> >>

\* the separator loop from separator n on: <<numbering, content>> of the first
\* separator whose left part looks like numbering, <<NoneStr, NoneStr>> if none
RECURSIVE DTM_split_from(_, _)
DTM_split_from(line, n) ==
    IF n > Len(DTM_separators) THEN <<NoneStr, NoneStr>>
    ELSE LET sep == DTM_separators[n]
         IN  IF Find(line, sep) > 0 /\ looks_like_numbering(Strip(SplitOnce(line, sep)[1]))
             THEN <<Strip(SplitOnce(line, sep)[1]), Strip(SplitOnce(line, sep)[2])>>
             ELSE DTM_split_from(line, n + 1)

\* the fallback patterns, all matched with re.IGNORECASE: the index after the
\* token of pattern n, 0 when the token does not match
DTM_fallback_token_end(line, n) ==
    CASE n = 1 -> TokEnd_DotZero(line)                 \* ^(\d+\.0)\s+(.+)
      [] n = 2 -> TokEnd_DotDigits(line)               \* ^(\d+\.\d+)\s+(.+)
      [] n = 3 -> TokEnd_OneDot(line, Letter)          \* ^([A-Z]\.)\s+(.+)
      [] n = 4 -> TokEnd_DigitsDot(line)               \* ^(\d+\.)\s+(.+)
      [] n = 5 -> TokEnd_OneDot(line, Letter)          \* ^([a-z]\.)\s+(.+)
      [] n = 6 -> TokEnd_RunDot(line, RomanAnyCase)    \* ^([ivxlcdm]+\.)\s+(.+)

RECURSIVE DTM_fallback_from(_, _)
DTM_fallback_from(line, n) ==
    IF n > 6 THEN <<NoneStr, NoneStr>>
    ELSE LET k == DTM_fallback_token_end(line, n)
         IN  IF k > 0 /\ TailAfterSpaces(line, k) # NoneStr
             THEN <<Take(line, k - 1), TailAfterSpaces(line, k)>>
             ELSE DTM_fallback_from(line, n + 1)

\* extract_numbering_from_line: <<numbering, content>>
extract_numbering_from_line(line) ==
    IF DTM_split_from(line, 1) # <<NoneStr, NoneStr>>
    THEN DTM_split_from(line, 1)
    ELSE DTM_fallback_from(line, 1)

\* DirectTextMatcher.extract_numbering_from_text, the body of its loop for line
\* number i: the entries it appends
DTM_extract_line(i, raw) ==
    LET line == Strip(raw)
        nc   == extract_numbering_from_line(line)
    IN  IF line \in SkippedLines \/ ~Truthy(nc[1]) \/ ~Truthy(nc[2]) THEN <<>>
        ELSE << [ line_number |-> i,
                  numbering   |-> nc[1],
                  content     |-> nc[2],
                  level       |-> determine_level(nc[1]) ] >>

(***************************************************************************)
(* NumberingPatternMatcher                                                 *)
(***************************************************************************)

\* numbering_patterns: the index after the token of entry n when the entry
\* matches the line (token, then \s+), else 0
NPM_pattern_token_end(line, n) ==
    LET k == CASE n = 1 -> TokEnd_DotZero(line)            \* ^\d+\.0\s+
               [] n = 2 -> TokEnd_DotDigits(line)          \* ^\d+\.\d+\s+
               [] n = 3 -> TokEnd_OneDot(line, Upper)      \* ^[A-Z]\.\s+
               [] n = 4 -> TokEnd_DigitsDot(line)          \* ^\d+\.\s+
               [] n = 5 -> TokEnd_OneDot(line, Lower)      \* ^[a-z]\.\s+
               [] n = 6 -> TokEnd_RunDot(line, RomanLower) \* ^[ivxlcdm]+\.\s+
    IN  IF k > 0 /\ At(line, k) \in Space THEN k ELSE 0

\* the level of each entry of numbering_patterns
NPM_pattern_level(n) == n - 1

\* the first entry of numbering_patterns that matches the line, 0 if none
NPM_first_pattern(line) ==
    LET hits == {n \in 1..6 : NPM_pattern_token_end(line, n) > 0}
    IN  IF hits = {} THEN 0 ELSE CHOOSE n \in hits : \A m \in hits : n <= m

\* separator_chars
NPM_separator_chars == << "\t", " ", ".", "-", ")", "]" >>

\* the manual detection loop from separator n on: <<numbering, content>>
RECURSIVE NPM_manual_from(_, _)
NPM_manual_from(line, n) ==
    IF n > Len(NPM_separator_chars) THEN <<NoneStr, NoneStr>>
    ELSE LET sep == <<NPM_separator_chars[n]>>
         IN  IF Find(line, sep) > 0 /\ looks_like_numbering(Strip(SplitOnce(line, sep)[1]))
             THEN <<Strip(SplitOnce(line, sep)[1]), Strip(SplitOnce(line, sep)[2])>>
             ELSE NPM_manual_from(line, n + 1)

\* NumberingPatternMatcher.extract_numbering_from_text, the body of its loop for
\* line number i: the entries it appends
NPM_extract_line(i, raw) ==
    LET line == Strip(raw)
        n    == NPM_first_pattern(line)
        m    == RunEnd(line, NPM_pattern_token_end(line, n), Space) - 1   \* len(match.group(0))
        man  == NPM_manual_from(line, 1)
        numbering == IF n > 0 THEN Strip(Take(line, m)) ELSE man[1]
        content   == IF n > 0 THEN Strip(Drop(line, m)) ELSE man[2]
        level     == IF n > 0 THEN NPM_pattern_level(n)
                     ELSE IF man[1] # NoneStr THEN determine_level(man[1]) ELSE NoLevel
        matched   == IF n > 0 THEN "pattern" ELSE "manual_detection"
    IN  IF line \in SkippedLines \/ ~Truthy(numbering) \/ ~Truthy(content) THEN <<>>
        ELSE << [ line_number     |-> i,
                  numbering       |-> numbering,
                  content         |-> content,
                  pattern_matched |-> matched,
                  level           |-> level ] >>

(***************************************************************************)
(* EnhancedHybridNumberingDetector                                         *)
(***************************************************************************)

\* WD_LIST_NO_NUMBERING
WD_LIST_NO_NUMBERING == 0

\* the paragraph marks extract_numbered_paragraphs strips: "\r" and "\x07"
\* (written "BEL" here)
ParagraphMarks == {"\r", "BEL"}

\* numbering_patterns: group 1 of entry n matched against t, NoneStr if no match
EHD_pattern_group(t, n) ==
    CASE n = 1 -> IF TokEnd_DotDigits(t) > 0                           \* ^(\d+\.\d+)\s*
                  THEN Take(t, TokEnd_DotDigits(t) - 1) ELSE NoneStr
      [] n = 2 -> IF TokEnd_DigitsDot(t) > 0                           \* ^(\d+\.)\s*
                  THEN Take(t, TokEnd_DigitsDot(t) - 1) ELSE NoneStr
      [] n = 3 -> IF TokEnd_OneDot(t, Upper) > 0 THEN Take(t, 2) ELSE NoneStr  \* ^([A-Z]\.)\s*
      [] n = 4 -> IF TokEnd_OneDot(t, Lower) > 0 THEN Take(t, 2) ELSE NoneStr  \* ^([a-z]\.)\s*
      [] n = 5 -> LET d == RunEnd(t, 2, Digit)                         \* ^\((\d+\))\s*
                  IN  IF At(t, 1) = "(" /\ d > 2 /\ At(t, d) = ")"
                      THEN SubSeq(t, 2, d) ELSE NoneStr
      [] n = 6 -> IF At(t, 1) = "(" /\ At(t, 2) \in Upper /\ At(t, 3) = ")"   \* ^\(([A-Z]\))\s*
                  THEN SubSeq(t, 2, 3) ELSE NoneStr
      [] n = 7 -> IF At(t, 1) = "(" /\ At(t, 2) \in Lower /\ At(t, 3) = ")"   \* ^\(([a-z]\))\s*
                  THEN SubSeq(t, 2, 3) ELSE NoneStr

\* deduce_numbering_from_text
deduce_numbering_from_text(text) ==
    IF Strip(text) = <<>> THEN NoneStr
    ELSE LET hits == {n \in 1..7 : EHD_pattern_group(Strip(text), n) # NoneStr}
         IN  IF hits = {} THEN NoneStr
             ELSE EHD_pattern_group(Strip(text), CHOOSE n \in hits : \A m \in hits : n <= m)

\* clean_content_from_numbering
clean_content_from_numbering(text, numbering) ==
    IF text = <<>> \/ ~Truthy(numbering) THEN text
    ELSE IF StartsWith(Strip(text), numbering)
         THEN LStrip(Drop(Strip(text), Len(numbering)))
         ELSE Strip(text)

\* extract_numbered_paragraphs with the test "not list_number" left out of the
\* guard of the deduction; C3 tells the two apart.
extract_paragraph_always_deduce(idx, para) ==
    LET text        == RStripChars(para.Text, ParagraphMarks)
        numbered    == para.ListType # WD_LIST_NO_NUMBERING
        list_number == IF numbered THEN para.ListString ELSE <<>>
        level       == IF numbered THEN para.ListLevelNumber ELSE NoLevel
        inferred    == IF Strip(text) # <<>>
                       THEN deduce_numbering_from_text(text) ELSE NoneStr
    IN  [ index            |-> idx,
          list_number      |-> list_number,
          text             |-> text,
          combined         |-> IF list_number # <<>> THEN list_number \o <<"\t">> \o text ELSE text,
          level            |-> level,
          inferred_number  |-> inferred,
          deduction_method |-> IF Truthy(inferred) THEN "text_pattern" ELSE "None",
          cleaned_content  |-> IF Truthy(inferred)
                               THEN clean_content_from_numbering(text, inferred) ELSE NoneStr ]

\* extract_numbered_paragraphs, the body of its loop for paragraph idx.  para is
\* the COM paragraph: Text is Range.Text, ListType, ListString and
\* ListLevelNumber are those of Range.ListFormat (ListString "" when Word
\* gives none, ListLevelNumber NoLevel when reading it raises).
extract_paragraph(idx, para) ==
    LET text        == RStripChars(para.Text, ParagraphMarks)
        numbered    == para.ListType # WD_LIST_NO_NUMBERING
        list_number == IF numbered THEN para.ListString ELSE <<>>
        level       == IF numbered THEN para.ListLevelNumber ELSE NoLevel
        inferred    == IF list_number = <<>> /\ Strip(text) # <<>>
                       THEN deduce_numbering_from_text(text) ELSE NoneStr
    IN  [ index            |-> idx,
          list_number      |-> list_number,
          text             |-> text,
          combined         |-> IF list_number # <<>> THEN list_number \o <<"\t">> \o text ELSE text,
          level            |-> level,
          inferred_number  |-> inferred,
          deduction_method |-> IF Truthy(inferred) THEN "text_pattern" ELSE "None",
          cleaned_content  |-> IF Truthy(inferred)
                               THEN clean_content_from_numbering(text, inferred) ELSE NoneStr ]

\* paragraphs[:20] in analyze_document_structure
SampleSize == 20

\* the length past which analyze_document_structure cuts text and combined
TextLimit == 100

\* s[:100] + "..." if len(s) > 100 else s
Truncate(s) == IF Len(s) > TextLimit THEN Take(s, TextLimit) \o <<".", ".", ".">> ELSE s

\* analyze_document_structure: one entry of sample_paragraphs
sample_entry(para) ==
    [ index            |-> para.index,
      list_number      |-> para.list_number,
      inferred_number  |-> para.inferred_number,
      text             |-> Truncate(para.text),
      combined         |-> Truncate(para.combined),
      level            |-> para.level,
      deduction_method |-> para.deduction_method ]

\* analyze_document_structure: sample_paragraphs, the first SampleSize paragraphs
make_sample_paragraphs(paras) ==
    [i \in 1..(IF Len(paras) < SampleSize THEN Len(paras) ELSE SampleSize) |-> sample_entry(paras[i])]

\* generate_analysis_report: one entry of all_paragraphs
all_entry(para) ==
    [ index            |-> para.index,
      list_number      |-> para.list_number,
      inferred_number  |-> para.inferred_number,
      text             |-> para.text,
      combined         |-> para.combined,
      cleaned_content  |-> para.cleaned_content,
      level            |-> para.level,
      deduction_method |-> para.deduction_method ]

\* ContentBlock(...), with continuation_blocks=[]
ContentBlock(index, numbering, numbering_type, content, level) ==
    [ index               |-> index,
      numbering           |-> numbering,
      numbering_type      |-> numbering_type,
      content             |-> content,
      level               |-> level,
      continuation_blocks |-> <<>> ]

\* consolidate_content_blocks appending the block without the continuation
\* texts gathered for it; C27 tells the two apart.
save_current_block_alone(blocks, current_block, continuation_texts) ==
    IF current_block = <<>> THEN blocks ELSE Append(blocks, current_block[1])

\* consolidate_content_blocks: the current block, if there is one, is given the
\* continuation texts gathered for it and appended.  current_block is <<>> for
\* None and <<block>> otherwise.
save_current_block(blocks, current_block, continuation_texts) ==
    IF current_block = <<>> THEN blocks
    ELSE Append(blocks,
                IF continuation_texts # <<>>
                THEN [current_block[1] EXCEPT !.continuation_blocks = continuation_texts]
                ELSE current_block[1])

\* consolidate_content_blocks, its loop from paragraph i on
RECURSIVE consolidate_from(_, _, _, _, _)
consolidate_from(paras, i, blocks, current_block, continuation_texts) ==
    IF i > Len(paras) THEN save_current_block(blocks, current_block, continuation_texts)
    ELSE LET para == paras[i]
         IN  IF Strip(para.text) = <<>>
             THEN consolidate_from(paras, i + 1, blocks, current_block, continuation_texts)
             ELSE IF Truthy(para.list_number) \/ Truthy(para.inferred_number)
             THEN LET saved == save_current_block(blocks, current_block, continuation_texts)
                  IN  consolidate_from(paras, i + 1, saved,
                          << ContentBlock(Len(saved),
                                 IF Truthy(para.list_number) THEN para.list_number
                                 ELSE para.inferred_number,
                                 IF Truthy(para.list_number) THEN "true" ELSE "inferred",
                                 para.text, para.level) >>,
                          <<>>)
             ELSE IF current_block # <<>>
             THEN consolidate_from(paras, i + 1, blocks, current_block,
                                   Append(continuation_texts, para.text))
             ELSE consolidate_from(paras, i + 1, blocks,
                      << ContentBlock(Len(blocks), <<>>, "none", para.text, NoLevel) >>,
                      <<>>)

\* consolidate_content_blocks
consolidate_content_blocks(paras) == consolidate_from(paras, 1, <<>>, <<>>, <<>>)

(***************************************************************************)
(* What EnhancedListAnalyzer, FlexibleListAnalyzer and                     *)
(* simple_enhanced_analyzer share word for word                            *)
(***************************************************************************)

\* None where the source holds Optional[int] (a list_id): list ids start at 1
NoListId == 0

\* the substitution without its anchor ^: the first occurrence of the token
\* anywhere in the text is removed; C14 tells the two apart.
SubPrefix_anywhere(text, numbering) ==
    LET k == Find(text, numbering)
    IN  IF k > 0
        THEN Take(text, k - 1) \o Drop(text, RunEnd(text, k + Len(numbering), Space) - 1)
        ELSE text

\* re.sub(f'^{re.escape(numbering)}\\s*\\t?\\s*', '', text)
SubPrefix(text, numbering) ==
    IF StartsWith(text, numbering)
    THEN Drop(text, RunEnd(text, Len(numbering) + 1, Space) - 1)
    ELSE text

\* _clean_content whose last branch returns the text untrimmed; C15 tells the
\* two apart.
clean_content3_no_trim(text, numbering_pattern, inferred_number) ==
    IF Truthy(numbering_pattern) THEN Strip(SubPrefix(text, numbering_pattern))
    ELSE IF Truthy(inferred_number) THEN Strip(SubPrefix(text, inferred_number))
    ELSE text

\* _clean_content(text, numbering_pattern, inferred_number)
clean_content3(text, numbering_pattern, inferred_number) ==
    IF Truthy(numbering_pattern) THEN Strip(SubPrefix(text, numbering_pattern))
    ELSE IF Truthy(inferred_number) THEN Strip(SubPrefix(text, inferred_number))
    ELSE Strip(text)

\* (I|II|III|IV|V|VI|VII|VIII|IX|X) and (i|ii|iii|iv|v|vi|vii|viii|ix|x)
UpperRomans ==
    { <<"I">>, <<"I","I">>, <<"I","I","I">>, <<"I","V">>, <<"V">>, <<"V","I">>,
      <<"V","I","I">>, <<"V","I","I","I">>, <<"I","X">>, <<"X">> }
LowerRomans ==
    { <<"i">>, <<"i","i">>, <<"i","i","i">>, <<"i","v">>, <<"v">>, <<"v","i">>,
      <<"v","i","i">>, <<"v","i","i","i">>, <<"i","x">>, <<"x">> }

\* ^(alternatives)\.
StartsWithOneOfDot(s, alternatives) == \E a \in alternatives : StartsWith(s, a \o <<".">>)

\* _detect_numbering_format / detect_numbering_format: the formats in dict order;
\* the first pattern of a format is a prefix of its others
detect_numbering_format(numbering) ==
    IF ~Truthy(numbering) THEN "None"
    ELSE IF TokEnd_DigitsDot(numbering) > 0 THEN "decimal"
    ELSE IF TokEnd_OneDot(numbering, Upper) > 0 THEN "upperLetter"
    ELSE IF TokEnd_OneDot(numbering, Lower) > 0 THEN "lowerLetter"
    ELSE IF StartsWithOneOfDot(numbering, UpperRomans) THEN "upperRoman"
    ELSE IF StartsWithOneOfDot(numbering, LowerRomans) THEN "lowerRoman"
    ELSE "None"

\* level_patterns: whether entry n matches the numbering (token, then \s)
level_pattern_matches(numbering, n) ==
    LET d == RunEnd(numbering, 1, Digit)
    IN  CASE n = 1 -> TokEnd_DotZero(numbering) > 0                      \* ^\d+\.0\s
                      /\ At(numbering, TokEnd_DotZero(numbering)) \in Space
          [] n = 2 -> /\ d > 1 /\ At(numbering, d) = "."                 \* ^\d+\.\d{2}\s
                      /\ At(numbering, d + 1) \in Digit /\ At(numbering, d + 2) \in Digit
                      /\ At(numbering, d + 3) \in Space
          [] n = 3 -> TokEnd_OneDot(numbering, Upper) > 0                \* ^[A-Z]\.\s
                      /\ At(numbering, 3) \in Space
          [] n = 4 -> TokEnd_DigitsDot(numbering) > 0                    \* ^\d+\.\s
                      /\ At(numbering, TokEnd_DigitsDot(numbering)) \in Space
          [] n = 5 -> TokEnd_OneDot(numbering, Lower) > 0                \* ^[a-z]\.\s
                      /\ At(numbering, 3) \in Space
          [] n = 6 -> TokEnd_RunDot(numbering, RomanIVX) > 0             \* ^[ivx]+\.\s
                      /\ At(numbering, TokEnd_RunDot(numbering, RomanIVX)) \in Space

\* _infer_level_from_numbering, and the loop over level_patterns in assign_levels:
\* the level of the first entry that matches (entry n has level n - 1)
infer_level_from_numbering(numbering) ==
    LET hits == {n \in 1..6 : level_pattern_matches(numbering, n)}
    IN  IF hits = {} THEN NoLevel ELSE (CHOOSE n \in hits : \A m \in hits : n <= m) - 1

\* the record's text is null: text = para.get('text', '') is None, and
\* _clean_content / clean_content, which call re.sub(..., text) or text.strip(),
\* raise TypeError or AttributeError
TextIsNull(para) == Get(para.text, <<>>) = NoneStr

\* _calculate_confidence / calculate_confidence, in tenths
calculate_confidence(block) ==
    LET c == (IF block.level # NoLevel THEN 3 ELSE 0)
             + (IF block.num_fmt # "None" THEN 3 ELSE 0)
             + (IF block.list_id # NoListId THEN 2 ELSE 0)
             + (IF Truthy(block.numbering_pattern) THEN 2 ELSE 0)
    IN  IF c < 10 THEN c ELSE 10

(***************************************************************************)
(* EnhancedListAnalyzer                                                    *)
(***************************************************************************)

\* _enhance_blocks with is_list_item = bool(numbering_pattern), the inferred
\* number left out; C16 tells the two apart.
Enhanced_enhance_block_explicit_only(para) ==
    LET text              == Get(para.text, <<>>)
        numbering_pattern == Get(para.list_number, <<>>)
        inferred_number   == Get(para.inferred_number, NoneStr)
    IN  [ index            |-> para.index,
          text             |-> text,
          cleaned_content  |-> clean_content3(text, numbering_pattern, inferred_number),
          level            |-> para.level,
          num_fmt          |-> detect_numbering_format(
                                   StrOr(numbering_pattern, StrOr(inferred_number, <<>>))),
          list_id          |-> NoListId,
          numbering_pattern |-> StrOr(numbering_pattern, inferred_number),
          inferred_number  |-> inferred_number,
          is_list_item     |-> Truthy(numbering_pattern),
          confidence_score |-> 0 ]

\* _enhance_blocks with is_list_item = bool(inferred_number), the explicit
\* number left out; C19 tells the two apart.
Enhanced_enhance_block_inferred_only(para) ==
    LET text              == Get(para.text, <<>>)
        numbering_pattern == Get(para.list_number, <<>>)
        inferred_number   == Get(para.inferred_number, NoneStr)
    IN  [ index            |-> para.index,
          text             |-> text,
          cleaned_content  |-> clean_content3(text, numbering_pattern, inferred_number),
          level            |-> para.level,
          num_fmt          |-> detect_numbering_format(
                                   StrOr(numbering_pattern, StrOr(inferred_number, <<>>))),
          list_id          |-> NoListId,
          numbering_pattern |-> StrOr(numbering_pattern, inferred_number),
          inferred_number  |-> inferred_number,
          is_list_item     |-> Truthy(inferred_number),
          confidence_score |-> 0 ]

\* _enhance_blocks, the body of its loop
Enhanced_enhance_block(para) ==
    LET text              == Get(para.text, <<>>)
        numbering_pattern == Get(para.list_number, <<>>)
        inferred_number   == Get(para.inferred_number, NoneStr)
    IN  [ index            |-> para.index,
          text             |-> text,
          cleaned_content  |-> clean_content3(text, numbering_pattern, inferred_number),
          level            |-> para.level,
          num_fmt          |-> detect_numbering_format(
                                   StrOr(numbering_pattern, StrOr(inferred_number, <<>>))),
          list_id          |-> NoListId,
          numbering_pattern |-> StrOr(numbering_pattern, inferred_number),
          inferred_number  |-> inferred_number,
          is_list_item     |-> Truthy(numbering_pattern) \/ Truthy(inferred_number),
          confidence_score |-> 0 ]

\* _enhance_blocks
Enhanced_enhance_blocks(paras) == [i \in 1..Len(paras) |-> Enhanced_enhance_block(paras[i])]

\* _group_lists, its loop from block i on (list indices count from 0)
RECURSIVE Enhanced_group_from(_, _, _, _)
Enhanced_group_from(blocks, i, current_group, list_groups) ==
    IF i > Len(blocks)
    THEN IF current_group # <<>> THEN Append(list_groups, current_group) ELSE list_groups
    ELSE IF blocks[i].is_list_item
         THEN Enhanced_group_from(blocks, i + 1, Append(current_group, i - 1), list_groups)
         ELSE IF current_group # <<>>
              THEN Enhanced_group_from(blocks, i + 1, <<>>, Append(list_groups, current_group))
              ELSE Enhanced_group_from(blocks, i + 1, <<>>, list_groups)

\* _group_lists
Enhanced_group_lists(blocks) == Enhanced_group_from(blocks, 1, <<>>, <<>>)

\* _analyze_group_levels with "or 0" replaced by "or 1"; C5 tells the two apart.
Enhanced_group_level_default_one(block) ==
    LET numbering == StrOr(block.numbering_pattern, <<>>)
        level     == infer_level_from_numbering(numbering)
    IN  IF level # NoLevel THEN level
        ELSE IF block.level # NoLevel /\ block.level # 0 THEN block.level ELSE 1

\* _analyze_group_levels with the fallback on block.level left out; C4 tells
\* the two apart.
Enhanced_group_level_no_fallback(block) ==
    LET numbering == StrOr(block.numbering_pattern, <<>>)
        level     == infer_level_from_numbering(numbering)
    IN  IF level # NoLevel THEN level ELSE 0

\* _analyze_group_levels, the body of its loop: the level of one block
Enhanced_group_level(block) ==
    LET numbering == StrOr(block.numbering_pattern, <<>>)
        level     == infer_level_from_numbering(numbering)
    IN  IF level # NoLevel THEN level
        ELSE IF block.level # NoLevel /\ block.level # 0 THEN block.level ELSE 0   \* block.level or 0

\* _analyze_group_levels giving every block of a group the level of the group's
\* first block; C20 tells the two apart.
Enhanced_analyze_group_levels_from_first(group_blocks) ==
    [k \in 1..Len(group_blocks) |-> Enhanced_group_level(group_blocks[1])]

\* _analyze_group_levels
Enhanced_analyze_group_levels(group_blocks) ==
    [k \in 1..Len(group_blocks) |-> Enhanced_group_level(group_blocks[k])]

\* _assign_levels: the dict level_assignments, block index -> level
Enhanced_assign_levels(blocks, list_groups) ==
    LET places == {<<g, k>> \in (1..Len(list_groups)) \X (1..Len(blocks)) :
                       k <= Len(list_groups[g])}
        place(i) == CHOOSE p \in places : list_groups[p[1]][p[2]] = i
        group_levels(g) ==
            Enhanced_analyze_group_levels(
                [k \in 1..Len(list_groups[g]) |-> blocks[list_groups[g][k] + 1]])
    IN  [i \in {list_groups[p[1]][p[2]] : p \in places} |->
             group_levels(place(i)[1])[place(i)[2]]]

\* _finalize_analysis, its first loop from block i on
RECURSIVE Enhanced_finalize_from(_, _, _, _, _, _)
Enhanced_finalize_from(blocks, level_assignments, i, list_id, in_list, out) ==
    IF i > Len(blocks) THEN out
    ELSE IF blocks[i].is_list_item
         THEN LET id == IF in_list THEN list_id ELSE list_id + 1
                  b  == [blocks[i] EXCEPT
                            !.list_id = id,
                            !.level = IF (i - 1) \in DOMAIN level_assignments
                                      THEN level_assignments[i - 1] ELSE @]
              IN  Enhanced_finalize_from(blocks, level_assignments, i + 1, id, TRUE,
                                         Append(out, b))
         ELSE Enhanced_finalize_from(blocks, level_assignments, i + 1, list_id, FALSE,
                                     Append(out, blocks[i]))

\* _finalize_analysis
Enhanced_finalize_analysis(blocks, level_assignments) ==
    LET assigned == Enhanced_finalize_from(blocks, level_assignments, 1, 0, FALSE, <<>>)
    IN  [i \in 1..Len(assigned) |->
             [assigned[i] EXCEPT !.confidence_score = calculate_confidence(assigned[i])]]

\* analyze_document: report['enhanced_blocks'] for data['sample_paragraphs'] = paras
Enhanced_analyze_document(paras) ==
    LET blocks == Enhanced_enhance_blocks(paras)
        groups == Enhanced_group_lists(blocks)
    IN  Enhanced_finalize_analysis(blocks, Enhanced_assign_levels(blocks, groups))

(***************************************************************************)
(* simple_enhanced_analyzer                                                *)
(***************************************************************************)

\* clean_content(text, numbering)
Simple_clean_content(text, numbering) ==
    IF Truthy(numbering) THEN Strip(SubPrefix(text, numbering)) ELSE Strip(text)

\* analyze_enhanced_structure, the block its loop builds for paragraph i (from 0)
Simple_enhanced_block(i, para) ==
    LET numbering == StrOr(Get(para.list_number, <<>>), Get(para.inferred_number, <<>>))
        text      == Get(para.text, <<>>)
    IN  [ index             |-> i,
          text              |-> text,
          cleaned_content   |-> Simple_clean_content(text, numbering),
          level             |-> para.level,
          num_fmt           |-> detect_numbering_format(numbering),
          list_id           |-> NoListId,
          numbering_pattern |-> numbering,
          is_list_item      |-> Truthy(numbering),
          confidence_score  |-> 0 ]

\* the position (from 1) of the group that holds block index i, 0 if none does
GroupOf(list_groups, i) ==
    LET holds == {g \in 1..Len(list_groups) :
                      \E k \in 1..Len(list_groups[g]) : list_groups[g][k] = i}
    IN  IF holds = {} THEN 0 ELSE CHOOSE g \in holds : TRUE

\* assign_levels, the body of its loop: the level it leaves in one block of a group
Simple_assign_level(block) ==
    LET level == infer_level_from_numbering(block.numbering_pattern)
    IN  IF level # NoLevel THEN level
        ELSE IF block.level = NoLevel THEN 0
        ELSE block.level

\* analyze_enhanced_structure: report['enhanced_blocks'] for
\* data['sample_paragraphs'] = paras.  The grouping loop is the one of
\* EnhancedListAnalyzer._group_lists.
Simple_analyze_enhanced_structure(paras) ==
    LET blocks  == [i \in 1..Len(paras) |-> Simple_enhanced_block(i - 1, paras[i])]
        groups  == Enhanced_group_from(blocks, 1, <<>>, <<>>)
        with_id == [i \in 1..Len(blocks) |->
                       IF GroupOf(groups, i - 1) > 0
                       THEN [blocks[i] EXCEPT !.list_id = GroupOf(groups, i - 1)]
                       ELSE blocks[i]]
        levelled == [i \in 1..Len(blocks) |->
                       IF GroupOf(groups, i - 1) > 0
                       THEN [with_id[i] EXCEPT !.level = Simple_assign_level(with_id[i])]
                       ELSE with_id[i]]
    IN  [i \in 1..Len(blocks) |->
             [levelled[i] EXCEPT !.confidence_score = calculate_confidence(levelled[i])]]

(***************************************************************************)
(* FlexibleListAnalyzer                                                    *)
(***************************************************************************)

\* _create_flexible_blocks, the body of its loop
Flexible_create_block(para) ==
    LET text              == Get(para.text, <<>>)
        numbering_pattern == Get(para.list_number, <<>>)
        inferred_number   == Get(para.inferred_number, NoneStr)
    IN  [ index             |-> para.index,
          text              |-> text,
          cleaned_content   |-> clean_content3(text, numbering_pattern, inferred_number),
          level             |-> NoLevel,
          num_fmt           |-> detect_numbering_format(
                                    StrOr(numbering_pattern, StrOr(inferred_number, <<>>))),
          list_id           |-> NoListId,
          numbering_pattern |-> StrOr(numbering_pattern, inferred_number),
          inferred_number   |-> inferred_number,
          is_list_item      |-> Truthy(numbering_pattern) \/ Truthy(inferred_number),
          confidence_score  |-> 0 ]

\* _extract_base_pattern
Flexible_extract_base_pattern(numbering) ==
    IF      TokEnd_DigitsDot(numbering) > 0 THEN "decimal"
    ELSE IF TokEnd_OneDot(numbering, Upper) > 0 THEN "upper_letter"
    ELSE IF TokEnd_OneDot(numbering, Lower) > 0 THEN "lower_letter"
    ELSE IF StartsWithOneOfDot(numbering, UpperRomans) THEN "upper_roman"
    ELSE IF StartsWithOneOfDot(numbering, LowerRomans) THEN "lower_roman"
    ELSE "unknown"

\* ^\d+\.\d+\.\d+
Match_ThreeNumbers(s) ==
    LET e == TokEnd_DotDigits(s)
    IN  e > 0 /\ At(s, e) = "." /\ At(s, e + 1) \in Digit

\* ^(i|ii|iii)\.
Match_SmallRoman(s) ==
    StartsWithOneOfDot(s, { <<"i">>, <<"i","i">>, <<"i","i","i">> })

\* _is_sublevel_pattern: some (prev_pattern, curr_pattern) pair matches
Flexible_is_sublevel_pattern(current, previous) ==
    \/ TokEnd_DigitsDot(previous) > 0 /\ TokEnd_DotDigits(current) > 0        \* 1. -> 1.1
    \/ TokEnd_DotDigits(previous) > 0 /\ Match_ThreeNumbers(current)          \* 1.1 -> 1.1.1
    \/ TokEnd_DigitsDot(previous) > 0 /\ TokEnd_OneDot(current, Upper) > 0    \* 1. -> A.
    \/ TokEnd_OneDot(previous, Upper) > 0 /\ TokEnd_DigitsDot(current) > 0    \* A. -> 1.
    \/ TokEnd_DigitsDot(previous) > 0 /\ TokEnd_OneDot(current, Lower) > 0    \* 1. -> a.
    \/ TokEnd_OneDot(previous, Upper) > 0 /\ TokEnd_OneDot(current, Lower) > 0 \* A. -> a.
    \/ TokEnd_OneDot(previous, Upper) > 0 /\ Match_SmallRoman(current)        \* A. -> i.
    \/ TokEnd_DigitsDot(previous) > 0 /\ Match_SmallRoman(current)            \* 1. -> i.

\* _is_sibling_pattern
Flexible_is_sibling_pattern(current, previous) ==
    Flexible_extract_base_pattern(current) = Flexible_extract_base_pattern(previous)

\* _is_parent_pattern
Flexible_is_parent_pattern(current, previous) ==
    Flexible_extract_base_pattern(current) # Flexible_extract_base_pattern(previous)

\* _analyze_numbering_relationship
Flexible_analyze_numbering_relationship(current, previous) ==
    IF ~Truthy(current) \/ ~Truthy(previous) THEN "new_list"
    ELSE IF Flexible_is_sublevel_pattern(current, previous) THEN "sublevel"
    ELSE IF Flexible_is_sibling_pattern(current, previous) THEN "sibling"
    ELSE IF Flexible_is_parent_pattern(current, previous) THEN "parent"
    ELSE "new_list"

\* _infer_level_from_context reading the oldest entry of numbering_stack
\* instead of the most recent one; C24 tells the two apart.
Flexible_infer_from_stack_oldest(numbering, numbering_stack, n, current_level) ==
    IF n = 0 THEN current_level
    ELSE LET prev_numbering == numbering_stack[1][1]
             prev_level     == numbering_stack[1][2]
             relationship   == Flexible_analyze_numbering_relationship(numbering, prev_numbering)
         IN  CASE relationship = "sublevel" -> prev_level + 1
               [] relationship = "sibling"  -> prev_level
               [] relationship = "parent"   -> IF prev_level - 1 > 0 THEN prev_level - 1 ELSE 0
               [] OTHER -> 0

\* _infer_level_from_context, its loop over reversed(numbering_stack) from
\* stack entry n down; an entry is <<numbering, level>>
RECURSIVE Flexible_infer_from_stack(_, _, _, _)
Flexible_infer_from_stack(numbering, numbering_stack, n, current_level) ==
    IF n = 0 THEN current_level
    ELSE LET prev_numbering == numbering_stack[n][1]
             prev_level     == numbering_stack[n][2]
             relationship   == Flexible_analyze_numbering_relationship(numbering, prev_numbering)
         IN  CASE relationship = "sublevel" -> prev_level + 1
               [] relationship = "sibling"  -> prev_level
               [] relationship = "parent"   -> IF prev_level - 1 > 0 THEN prev_level - 1 ELSE 0
               [] relationship = "new_list" -> 0
               [] OTHER -> Flexible_infer_from_stack(numbering, numbering_stack, n - 1,
                                                     current_level)

\* _infer_level_from_context
Flexible_infer_level_from_context(block, numbering_stack, current_level) ==
    IF numbering_stack = <<>> THEN 0
    ELSE Flexible_infer_from_stack(StrOr(block.numbering_pattern, <<>>), numbering_stack,
                                   Len(numbering_stack), current_level)

\* _assign_levels_contextually whose loop keeps the context over a non-list
\* block; C23 tells the two apart.
RECURSIVE Flexible_assign_from_no_reset(_, _, _, _, _)
Flexible_assign_from_no_reset(blocks, i, numbering_stack, current_level, out) ==
    IF i > Len(blocks) THEN out
    ELSE IF ~blocks[i].is_list_item
         THEN Flexible_assign_from_no_reset(blocks, i + 1, numbering_stack, current_level,
                                            Append(out, blocks[i]))
         ELSE LET level == Flexible_infer_level_from_context(blocks[i], numbering_stack,
                                                             current_level)
                  b     == [blocks[i] EXCEPT !.level = level]
              IN  Flexible_assign_from_no_reset(blocks, i + 1,
                      Append(numbering_stack, <<b.numbering_pattern, level>>),
                      level, Append(out, b))

\* _assign_levels_contextually, its loop from block i on; the context is
\* numbering_stack and current_level (format_stack and indent_stack are written
\* and never read)
RECURSIVE Flexible_assign_from(_, _, _, _, _)
Flexible_assign_from(blocks, i, numbering_stack, current_level, out) ==
    IF i > Len(blocks) THEN out
    ELSE IF ~blocks[i].is_list_item
         THEN Flexible_assign_from(blocks, i + 1, <<>>, 0, Append(out, blocks[i]))
         ELSE LET level == Flexible_infer_level_from_context(blocks[i], numbering_stack,
                                                             current_level)
                  b     == [blocks[i] EXCEPT !.level = level]
              IN  IF Truthy(b.numbering_pattern)
                  THEN Flexible_assign_from(blocks, i + 1,
                           Append(numbering_stack, <<b.numbering_pattern, level>>),
                           level, Append(out, b))
                  ELSE Flexible_assign_from(blocks, i + 1, numbering_stack, current_level,
                                            Append(out, b))

\* _assign_levels_contextually
Flexible_assign_levels_contextually(blocks) == Flexible_assign_from(blocks, 1, <<>>, 0, <<>>)

\* _group_lists_contextually starting a new group at every change of level;
\* C25 tells the two apart.
RECURSIVE Flexible_group_from_split_on_change(_, _, _, _, _)
Flexible_group_from_split_on_change(blocks, i, current_group, current_level, list_groups) ==
    IF i > Len(blocks)
    THEN IF current_group # <<>> THEN Append(list_groups, current_group) ELSE list_groups
    ELSE IF blocks[i].is_list_item /\ blocks[i].level # NoLevel
         THEN IF current_level = NoLevel \/ blocks[i].level = current_level
              THEN Flexible_group_from_split_on_change(blocks, i + 1,
                       Append(current_group, i - 1), blocks[i].level, list_groups)
              ELSE Flexible_group_from_split_on_change(blocks, i + 1, <<i - 1>>,
                       blocks[i].level,
                       IF current_group # <<>> THEN Append(list_groups, current_group)
                       ELSE list_groups)
         ELSE IF current_group # <<>>
              THEN Flexible_group_from_split_on_change(blocks, i + 1, <<>>, NoLevel,
                       Append(list_groups, current_group))
              ELSE Flexible_group_from_split_on_change(blocks, i + 1, <<>>, current_level,
                                                       list_groups)

\* _group_lists_contextually, its loop from block i on; current_level NoLevel is None
RECURSIVE Flexible_group_from(_, _, _, _, _)
Flexible_group_from(blocks, i, current_group, current_level, list_groups) ==
    IF i > Len(blocks)
    THEN IF current_group # <<>> THEN Append(list_groups, current_group) ELSE list_groups
    ELSE IF blocks[i].is_list_item /\ blocks[i].level # NoLevel
         THEN IF current_level = NoLevel
                 \/ (blocks[i].level - current_level \in {-1, 0, 1})
              THEN Flexible_group_from(blocks, i + 1, Append(current_group, i - 1),
                                       blocks[i].level, list_groups)
              ELSE Flexible_group_from(blocks, i + 1, <<i - 1>>, blocks[i].level,
                       IF current_group # <<>> THEN Append(list_groups, current_group)
                       ELSE list_groups)
         ELSE IF current_group # <<>>
              THEN Flexible_group_from(blocks, i + 1, <<>>, NoLevel,
                                       Append(list_groups, current_group))
              ELSE Flexible_group_from(blocks, i + 1, <<>>, current_level, list_groups)

\* _group_lists_contextually: the list groups
Flexible_group_lists_contextually(blocks) ==
    Flexible_group_from(blocks, 1, <<>>, NoLevel, <<>>)

\* analyze_document: report['flexible_blocks'] for data['sample_paragraphs'] = paras
Flexible_analyze_document(paras) ==
    LET blocks   == [i \in 1..Len(paras) |-> Flexible_create_block(paras[i])]
        levelled == Flexible_assign_levels_contextually(blocks)
        groups   == Flexible_group_lists_contextually(levelled)
        with_id  == [i \in 1..Len(levelled) |->
                        IF GroupOf(groups, i - 1) > 0
                        THEN [levelled[i] EXCEPT !.list_id = GroupOf(groups, i - 1)]
                        ELSE levelled[i]]
    IN  [i \in 1..Len(with_id) |->
             [with_id[i] EXCEPT !.confidence_score = calculate_confidence(with_id[i])]]

(***************************************************************************)
(* Inputs                                                                  *)
(***************************************************************************)

Foo == <<"F", "o", "o">>

\* Paragraph texts as Word holds them, before the paragraph mark
Texts ==
    { Foo,                                          \* "Foo"
      <<>>,                                         \* ""
      <<" ">>,                                      \* " "
      <<"1", ".", "0", "1", "\t">> \o Foo,          \* "1.01\tFoo"
      <<"1", ".", "0", " ">> \o Foo,                \* "1.0 Foo"
      <<"A", ".", " ">> \o Foo,                     \* "A. Foo"
      <<"3", ".", " ">> \o Foo,                     \* "3. Foo"
      <<"a", ".", " ">> \o Foo,                     \* "a. Foo"
      <<"i", "i", ".", " ">> \o Foo,                \* "ii. Foo"
      <<"(", "a", ")", " ">> \o Foo,                \* "(a) Foo"
      <<"(", "1", ")", " ">> \o Foo,                \* "(1) Foo"
      <<" ", "A", ".", " ">> \o Foo \o <<" ">>,     \* " A. Foo "
      <<" ">> \o Foo \o <<" ">> }                   \* " Foo "

\* Texts of the paragraphs that Word numbers itself
NumberedTexts ==
    { Foo,                                          \* "Foo"
      <<"A", ".", " ">> \o Foo,                     \* "A. Foo"
      <<"1", ".", "0", "2", "\t">> \o Foo,          \* "1.02\tFoo"
      Foo \o <<" ", "A", ".">>,                     \* "Foo A."
      <<>> }                                        \* "", an empty numbered paragraph

\* ListFormat.ListString values; "" is a list paragraph Word shows no number for
ListStrings ==
    { <<"1", ".", "0", "2">>,                       \* "1.02"
      <<"1", ".", "0">>,                            \* "1.0"
      <<"A", ".">>,                                 \* "A."
      <<"3", ".">>,                                 \* "3."
      <<"i", "v", ".">>,                            \* "iv."
      <<"1", ")">>,                                 \* "1)"
      <<"2", ".", "0", " ">>,                       \* "2.0 ", a number format that ends in a space
      <<>> }                                        \* ""

\* ListFormat.ListLevelNumber values (Word counts levels from 1); NoLevel when
\* reading it raises
ListLevels == {1, 2, NoLevel}

\* a paragraph Word does not number
UnnumberedParagraph(t) ==
    [Text |-> t \o <<"\r">>, ListType |-> WD_LIST_NO_NUMBERING, ListString |-> <<>>,
     ListLevelNumber |-> NoLevel]

\* a paragraph Word numbers (ListType 3 is wdListSimpleNumbering)
NumberedParagraph(t, ls, lv) ==
    [Text |-> t \o <<"\r">>, ListType |-> 3, ListString |-> ls, ListLevelNumber |-> lv]

WordParagraphs ==
    {UnnumberedParagraph(t) : t \in Texts}
    \cup {NumberedParagraph(t, ls, lv) : t \in NumberedTexts, ls \in ListStrings, lv \in ListLevels}

\* the paragraphs that surround the one under study
Fillers ==
    { UnnumberedParagraph(Foo),
      UnnumberedParagraph(<<"3", ".", " ">> \o Foo),
      NumberedParagraph(Foo, <<"A", ".">>, 2),
      UnnumberedParagraph(<<"1", ".", "0", "1", "\t">> \o Foo),
      UnnumberedParagraph(<<"a", ".", " ">> \o Foo) }

\* the longest document
MaxParagraphs == 21

\* the longest document made of any surrounding paragraphs
MaxRun == 4

\* documents of one or two paragraphs
ShortDocuments ==
    {<<p>> : p \in WordParagraphs}
    \cup {<<p, f>> : p \in WordParagraphs, f \in Fillers}
    \cup {<<f, p>> : p \in WordParagraphs, f \in Fillers}

\* documents of any length up to MaxParagraphs made of one paragraph repeated
UniformDocuments == {[i \in 1..n |-> f] : n \in 0..MaxParagraphs, f \in Fillers}

\* documents of three to MaxRun paragraphs, each any of the surrounding ones
RunDocuments == UNION {[1..n -> Fillers] : n \in 3..MaxRun}

Documents == ShortDocuments \cup UniformDocuments \cup RunDocuments

(***************************************************************************)
(* The detector and the analyzers that read its report                     *)
(***************************************************************************)

\* nothing has been written by the converters, the rebuilders, the extractors
\* and the validator
ToolsIdle ==
    /\ complete_docx = <<>>
    /\ template_docx = <<>>
    /\ enhanced_simple = <<>>
    /\ flexible_simple = <<>>
    /\ extractor_blocks = <<>>
    /\ simple_extractor_blocks = <<>>
    /\ validation = <<>>

Init ==
    /\ wordDoc \in Documents
    /\ paragraphs = <<>>
    /\ sample_paragraphs = <<>>
    /\ all_paragraphs = <<>>
    /\ content_blocks = <<>>
    /\ ToolsIdle
    /\ docx = <<>>
    /\ word_lines = <<>>
    /\ file_lines = <<>>
    /\ enhanced_blocks = <<>>
    /\ flexible_blocks = <<>>
    /\ simple_blocks = <<>>
    /\ txtLines = <<>>
    /\ expected_numbering = <<>>
    /\ text_lines = <<>>
    /\ numbered_lines = <<>>
    /\ done = {}
    /\ raised = {}

\* extract_numbered_paragraphs
extract_numbered_paragraphs(doc) == [i \in 1..Len(doc) |-> extract_paragraph(i - 1, doc[i])]

\* EnhancedHybridNumberingDetector.generate_analysis_report: the paragraphs are
\* extracted and the report is written
GenerateAnalysisReport ==
    /\ "detector" \notin done
    /\ paragraphs' = extract_numbered_paragraphs(wordDoc)
    /\ sample_paragraphs' = make_sample_paragraphs(paragraphs')
    /\ all_paragraphs' = [i \in 1..Len(paragraphs') |-> all_entry(paragraphs'[i])]
    /\ content_blocks' = consolidate_content_blocks(paragraphs')
    /\ done' = done \cup {"detector"}
    /\ UNCHANGED <<toolVars, wordDoc, enhanced_blocks, flexible_blocks, simple_blocks,
                   txtLines, expected_numbering, text_lines, numbered_lines, raised>>

\* EnhancedListAnalyzer.analyze_document on the detector's report
EnhancedAnalyzeDocument ==
    /\ "detector" \in done
    /\ "enhanced" \notin done
    /\ IF \E i \in 1..Len(sample_paragraphs) : TextIsNull(sample_paragraphs[i])
       THEN raised' = raised \cup {"enhanced"} /\ UNCHANGED enhanced_blocks
       ELSE enhanced_blocks' = Enhanced_analyze_document(sample_paragraphs) /\ UNCHANGED raised
    /\ done' = done \cup {"enhanced"}
    /\ UNCHANGED <<toolVars, content_blocks, wordDoc, paragraphs, sample_paragraphs,
                   all_paragraphs, flexible_blocks, simple_blocks, txtLines,
                   expected_numbering, text_lines, numbered_lines>>

\* FlexibleListAnalyzer.analyze_document on the detector's report
FlexibleAnalyzeDocument ==
    /\ "detector" \in done
    /\ "flexible" \notin done
    /\ IF \E i \in 1..Len(sample_paragraphs) : TextIsNull(sample_paragraphs[i])
       THEN raised' = raised \cup {"flexible"} /\ UNCHANGED flexible_blocks
       ELSE flexible_blocks' = Flexible_analyze_document(sample_paragraphs) /\ UNCHANGED raised
    /\ done' = done \cup {"flexible"}
    /\ UNCHANGED <<toolVars, content_blocks, wordDoc, paragraphs, sample_paragraphs,
                   all_paragraphs, enhanced_blocks, simple_blocks, txtLines,
                   expected_numbering, text_lines, numbered_lines>>

\* simple_enhanced_analyzer.analyze_enhanced_structure on the detector's report
SimpleAnalyzeEnhancedStructure ==
    /\ "detector" \in done
    /\ "simple" \notin done
    /\ IF \E i \in 1..Len(sample_paragraphs) : TextIsNull(sample_paragraphs[i])
       THEN raised' = raised \cup {"simple"} /\ UNCHANGED simple_blocks
       ELSE simple_blocks' = Simple_analyze_enhanced_structure(sample_paragraphs) /\ UNCHANGED raised
    /\ done' = done \cup {"simple"}
    /\ UNCHANGED <<toolVars, content_blocks, wordDoc, paragraphs, sample_paragraphs,
                   all_paragraphs, enhanced_blocks, flexible_blocks, txtLines,
                   expected_numbering, text_lines, numbered_lines>>

Next ==
    \/ GenerateAnalysisReport
    \/ EnhancedAnalyzeDocument
    \/ FlexibleAnalyzeDocument
    \/ SimpleAnalyzeEnhancedStructure

Spec == Init /\ [][Next]_vars

(***************************************************************************)
(* The matchers that read the expected-numbering text file                 *)
(***************************************************************************)

\* numbering tokens written in the text file
FileTokens ==
    { <<"1", ".", "0">>, <<"2", ".", "0">>, <<"1", ".", "0", "1">>, <<"1", ".", "1", "0">>,
      <<"A", ".">>, <<"1", ".">>, <<"1", "0", ".">>, <<"4", "7", ".">>,
      <<"a", ".">>, <<"i", ".">>, <<"v", ".">>, <<"x", ".">>,
      <<"i", "i", ".">>, <<"i", "v", ".">>,
      <<"(", "a", ")">>, <<"(", "1", ")">>, <<"1", ".", "5">>, <<"1", ".", "0", ".", "1">> }

\* tokens that the file also holds followed by a space instead of a tab
SpacedTokens ==
    { <<"2", ".", "0">>, <<"1", ".", "0", "1">>, <<"A", ".">>, <<"1", ".">>,
      <<"a", ".">>, <<"i", ".">>, <<"i", "i", ".">>, <<"(", "a", ")">>, <<"(", "1", ")">> }

\* lines of the text file, as readlines() gives them
Lines ==
    {t \o <<"\t">> \o Foo \o <<"\n">> : t \in FileTokens}
    \cup {t \o <<" ">> \o Foo \o <<"\n">> : t \in SpacedTokens}
    \cup { <<"N", "o", " ">> \o Foo \o <<"\n">>,                     \* "No Foo"
           Foo \o <<"\n">>,                                          \* "Foo"
           <<"A", ".", " ">> \o Foo \o <<" ", "-", " ">> \o Foo \o <<"\n">>,  \* "A. Foo - Foo"
           <<"\n">>,                                                 \* a blank line
           <<"S","E","C","T","I","O","N"," ","T","I","T","L","E","\n">> }

\* the longest text file, in lines
MaxFileLines == 2

\* s1 \o s2 \o ... for a sequence of sequences
RECURSIVE Concat(_)
Concat(ss) == IF ss = <<>> THEN <<>> ELSE Head(ss) \o Concat(Tail(ss))

InitText ==
    /\ wordDoc = <<>>
    /\ paragraphs = <<>>
    /\ sample_paragraphs = <<>>
    /\ all_paragraphs = <<>>
    /\ content_blocks = <<>>
    /\ ToolsIdle
    /\ docx = <<>>
    /\ word_lines = <<>>
    /\ file_lines = <<>>
    /\ enhanced_blocks = <<>>
    /\ flexible_blocks = <<>>
    /\ simple_blocks = <<>>
    /\ \E n \in 1..MaxFileLines : txtLines \in [1..n -> Lines]
    /\ expected_numbering = <<>>
    /\ text_lines = <<>>
    /\ numbered_lines = <<>>
    /\ done = {}
    /\ raised = {}

\* ComprehensiveNumberingAnalyzer.load_expected_numbering
LoadExpectedNumbering ==
    /\ done = {}
    /\ expected_numbering' = Concat([i \in 1..Len(txtLines) |-> load_expected_line(i, txtLines[i])])
    /\ done' = {"comprehensive"}
    /\ UNCHANGED <<toolVars, content_blocks, wordDoc, paragraphs, sample_paragraphs,
                   all_paragraphs, enhanced_blocks, flexible_blocks, simple_blocks,
                   txtLines, text_lines, numbered_lines, raised>>

\* NumberingPatternMatcher.extract_numbering_from_text
PatternMatcherExtract ==
    /\ done = {}
    /\ text_lines' = Concat([i \in 1..Len(txtLines) |-> NPM_extract_line(i, txtLines[i])])
    /\ done' = {"pattern_matcher"}
    /\ UNCHANGED <<toolVars, content_blocks, wordDoc, paragraphs, sample_paragraphs,
                   all_paragraphs, enhanced_blocks, flexible_blocks, simple_blocks,
                   txtLines, expected_numbering, numbered_lines, raised>>

\* DirectTextMatcher.extract_numbering_from_text
DirectMatcherExtract ==
    /\ done = {}
    /\ numbered_lines' = Concat([i \in 1..Len(txtLines) |-> DTM_extract_line(i, txtLines[i])])
    /\ done' = {"direct_matcher"}
    /\ UNCHANGED <<toolVars, content_blocks, wordDoc, paragraphs, sample_paragraphs,
                   all_paragraphs, enhanced_blocks, flexible_blocks, simple_blocks,
                   txtLines, expected_numbering, text_lines, raised>>

NextText ==
    \/ LoadExpectedNumbering
    \/ PatternMatcherExtract
    \/ DirectMatcherExtract

TextSpec == InitText /\ [][NextText]_vars

(***************************************************************************)
(* The analyzers on a report file of any content: a paragraph record may   *)
(* lack a key or hold null for it                                          *)
(***************************************************************************)

RecordTexts == { Missing, NoneStr, <<>>, <<"A", ".", " ">> \o Foo }

RecordNumbers == { Missing, NoneStr, <<"A", ".">> }

\* a paragraph record of the report; a level that is missing or null reads as
\* None in para.get('level')
Record(idx, text, list_number, inferred_number) ==
    [ index            |-> idx,
      list_number      |-> list_number,
      text             |-> text,
      combined         |-> text,
      level            |-> NoLevel,
      inferred_number  |-> inferred_number,
      deduction_method |-> "None" ]

\* the longest list of records
MaxRecords == 2

InitRecords ==
    /\ wordDoc = <<>>
    /\ paragraphs = <<>>
    /\ \E n \in 1..MaxRecords :
           \E t \in [1..n -> RecordTexts], l \in [1..n -> RecordNumbers],
              r \in [1..n -> RecordNumbers] :
               sample_paragraphs = [i \in 1..n |-> Record(i - 1, t[i], l[i], r[i])]
    /\ all_paragraphs = <<>>
    /\ content_blocks = <<>>
    /\ ToolsIdle
    /\ docx = <<>>
    /\ word_lines = <<>>
    /\ file_lines = <<>>
    /\ enhanced_blocks = <<>>
    /\ flexible_blocks = <<>>
    /\ simple_blocks = <<>>
    /\ txtLines = <<>>
    /\ expected_numbering = <<>>
    /\ text_lines = <<>>
    /\ numbered_lines = <<>>
    /\ done = {"detector"}
    /\ raised = {}

NextRecords ==
    \/ EnhancedAnalyzeDocument
    \/ FlexibleAnalyzeDocument
    \/ SimpleAnalyzeEnhancedStructure

RecordSpec == InitRecords /\ [][NextRecords]_vars

(***************************************************************************)
(* CompleteXMLReconstructor and template_based_rebuilder, which write a    *)
(* .docx package from the detector's report.  An XML element is a record   *)
(* of its attributes and children; a list of elements is a sequence.       *)
(***************************************************************************)

\* str(n) for an int n >= 0
RECURSIVE str_nat(_)
str_nat(n) ==
    LET digits == <<"0", "1", "2", "3", "4", "5", "6", "7", "8", "9">>
    IN  IF n < 10 THEN <<digits[n + 1]>>
        ELSE Append(str_nat(n \div 10), digits[(n % 10) + 1])

\* str(level) for level: Optional[int], also what an f-string makes of it
str_level(level) == IF level = NoLevel THEN <<"N", "o", "n", "e">> ELSE str_nat(level)

\* sorted(S) for a set of ints
RECURSIVE sorted(_)
sorted(S) ==
    IF S = {} THEN <<>>
    ELSE LET m == CHOOSE x \in S : \A y \in S : x <= y
         IN  <<m>> \o sorted(S \ {m})

\* parse_paragraphs_from_json: one ParagraphData per entry
parse_paragraphs_from_json(entries) ==
    [i \in 1..Len(entries) |->
        [ index           |-> entries[i].index,
          list_number     |-> Get(entries[i].list_number, <<>>),
          text            |-> Get(entries[i].text, <<>>),
          level           |-> entries[i].level,
          inferred_number |-> Get(entries[i].inferred_number, NoneStr),
          cleaned_content |-> Get(entries[i].cleaned_content, NoneStr) ]]

\* ^\d+\.\d+$
Match_DecimalPair(s) ==
    LET e == RunEnd(s, 1, Digit)
        f == RunEnd(s, e + 1, Digit)
    IN  e > 1 /\ At(s, e) = "." /\ f > e + 1 /\ AtEnd(s, f)

\* ^C+\.$ for a character class C
Match_RunDot(s, C) ==
    LET e == RunEnd(s, 1, C)
    IN  e > 1 /\ At(s, e) = "." /\ AtEnd(s, e + 1)

\* ^C\.$ for a character class C
Match_OneDot(s, C) == At(s, 1) \in C /\ At(s, 2) = "." /\ AtEnd(s, 3)

\* determine_numbering_style
determine_numbering_style(numbering) ==
    IF      ~Truthy(numbering) THEN "decimal"
    ELSE IF Match_DecimalPair(numbering) THEN "decimal"
    ELSE IF Match_RunDot(numbering, Digit) THEN "decimal"
    ELSE IF Match_OneDot(numbering, Upper) THEN "upperLetter"
    ELSE IF Match_OneDot(numbering, Lower) THEN "lowerLetter"
    ELSE IF Match_RunDot(numbering, {"I", "V", "X"}) THEN "upperRoman"
    ELSE "decimal"

\* analyze_numbering_patterns: the paragraphs with a level and a numbering
\* store a pattern under their level, so that level_patterns[level] is what the
\* last of them stored; then one configuration per level, in the order of the
\* levels
analyze_numbering_patterns(paras) ==
    LET setters == {i \in 1..Len(paras) :
                       /\ paras[i].level # NoLevel
                       /\ Truthy(StrOr(paras[i].list_number, paras[i].inferred_number))}
        levels  == sorted({paras[i].level : i \in setters})
        last(level) == CHOOSE i \in setters :
                           /\ paras[i].level = level
                           /\ \A j \in setters : paras[j].level = level => j <= i
        numbering(i) == StrOr(paras[i].list_number, paras[i].inferred_number)
    IN  [k \in 1..Len(levels) |->
            [style     |-> determine_numbering_style(numbering(last(levels[k]))),
             format    |-> numbering(last(levels[k])),
             alignment |-> "left"]]

\* CompleteXMLReconstructor.create_numbering_xml: the w:lvl elements of the one
\* w:abstractNum, numbered by their position in levels_config
Complete_create_numbering_xml(levels_config) ==
    [k \in 1..Len(levels_config) |->
        [ilvl    |-> str_nat(k - 1),
         numFmt  |-> levels_config[k].style,
         lvlText |-> levels_config[k].format]]

\* CompleteXMLReconstructor.create_document_xml: the w:p elements of w:body,
\* one per paragraph whose text is not blank.  numPr is <<>> when the paragraph
\* has no w:numPr.
Complete_create_document_xml(paras) ==
    LET NonBlank(para_data) == Strip(para_data.text) # <<>>
        kept == SelectSeq(paras, NonBlank)
    IN  [k \in 1..Len(kept) |->
            [ numPr |-> IF Truthy(kept[k].list_number) \/ Truthy(kept[k].inferred_number)
                        THEN << [numId |-> <<"1">>,
                                 ilvl  |-> str_level(IF kept[k].level # NoLevel
                                                     THEN kept[k].level ELSE 0)] >>
                        ELSE <<>>,
              t     |-> IF Truthy(kept[k].cleaned_content) THEN kept[k].cleaned_content
                        ELSE kept[k].text ]]

\* create_word_document_xml: the two parts of the package that hold numbering
Complete_create_word_document_xml(paras) ==
    [ numbering_xml |-> Complete_create_numbering_xml(analyze_numbering_patterns(paras)),
      document_xml  |-> Complete_create_document_xml(paras) ]

\* template_based_rebuilder.create_numbering_xml: five levels, always
Template_create_numbering_xml ==
    << [ilvl |-> <<"0">>, numFmt |-> "decimal",     lvlText |-> <<"%", "1", ".">>],
       [ilvl |-> <<"1">>, numFmt |-> "decimal",     lvlText |-> <<"%", "1", ".", "%", "2", ".">>],
       [ilvl |-> <<"2">>, numFmt |-> "lowerLetter", lvlText |-> <<"%", "3", ".">>],
       [ilvl |-> <<"3">>, numFmt |-> "lowerLetter", lvlText |-> <<"%", "4", ".">>],
       [ilvl |-> <<"4">>, numFmt |-> "lowerLetter", lvlText |-> <<"%", "5", ".">>] >>

\* template_based_rebuilder.create_document_xml: the w:p elements of w:body,
\* one per paragraph whose text is not blank.  The report holds the key 'level'
\* in every entry, so para_data.get('level', 0) is the value of the key, None
\* included.
Template_create_document_xml(paras) ==
    LET NonBlank(para_data) == Strip(Get(para_data.text, <<>>)) # <<>>
        kept == SelectSeq(paras, NonBlank)
    IN  [k \in 1..Len(kept) |->
            LET text == Strip(Get(kept[k].text, <<>>))
            IN  IF Truthy(Get(kept[k].list_number, NoneStr))
                   \/ Truthy(Get(kept[k].inferred_number, NoneStr))
                THEN [ numPr |-> << [numId |-> <<"1">>,
                                     ilvl  |-> str_level(kept[k].level)] >>,
                       t     |-> Get(kept[k].cleaned_content, text) ]
                ELSE [ numPr |-> <<>>, t |-> text ]]

(***************************************************************************)
(* enhanced_to_simple_converter and flexible_to_simple_converter           *)
(***************************************************************************)

\* the simple_paragraphs both converters write, one simple_para per block
simple_paragraphs(blocks) ==
    [i \in 1..Len(blocks) |->
        [ index            |-> blocks[i].index,
          list_number      |-> StrOr(blocks[i].numbering_pattern, <<>>),
          inferred_number  |-> blocks[i].inferred_number,
          text             |-> blocks[i].cleaned_content,
          combined         |-> blocks[i].text,
          level            |-> blocks[i].level,
          deduction_method |-> "None" ]]

\* convert_enhanced_to_simple, its summary: p['is_list_item'] raises KeyError
\* for a paragraph without that key
Enhanced_summary_raises(paras) ==
    \E i \in 1..Len(paras) : "is_list_item" \notin DOMAIN paras[i]

(***************************************************************************)
(* WordToJsonConverter, ContentBlockExtractor and SimpleContentExtractor   *)
(***************************************************************************)

\* WordToJsonConverter.convert_to_json: data['paragraphs'], one entry per
\* paragraph whose text is not blank, under the index the paragraph has in the
\* document.  numbering is <<>> when the entry has no such key.
convert_to_json(doc) ==
    LET NonBlank(i) == Strip(doc[i].text) # <<>>
        kept == SelectSeq([i \in 1..Len(doc) |-> i], NonBlank)
    IN  [k \in 1..Len(kept) |->
            [ text      |-> Strip(doc[kept[k]].text),
              numbering |-> IF doc[kept[k]].numPr # <<>>
                            THEN << [id    |-> doc[kept[k]].numPr[1].numId,
                                     level |-> doc[kept[k]].numPr[1].ilvl] >>
                            ELSE <<>>,
              index     |-> kept[k] - 1 ]]

\* None where the source holds Optional[int] (a numbering id)
NoNumId == -1

\* extract_content_blocks, its first loop from paragraph i on; numbering_id is
\* the field SimpleContentExtractor adds
RECURSIVE extract_blocks_from(_, _, _)
extract_blocks_from(paras, i, blocks) ==
    IF i > Len(paras) THEN blocks
    ELSE LET text == Strip(paras[i].text)
         IN  extract_blocks_from(paras, i + 1,
                 IF text = <<>> THEN blocks
                 ELSE Append(blocks,
                          [ text         |-> text,
                            level_number |-> IF paras[i].numbering # <<>>
                                             THEN paras[i].numbering[1].level ELSE NoLevel,
                            numbering_id |-> IF paras[i].numbering # <<>>
                                             THEN paras[i].numbering[1].id ELSE NoNumId,
                            block_type   |-> "content",
                            index        |-> Len(blocks) ]))

\* extract_content_blocks classifying from two blocks on; C29 tells the two
\* apart.
classify_blocks_from_two(blocks) ==
    IF Len(blocks) >= 2
    THEN LET b1 == [blocks EXCEPT ![1].block_type = "section_number"]
             b2 == [b1 EXCEPT ![2].block_type = "section_title"]
             b3 == [b2 EXCEPT ![Len(blocks)].block_type = "end_of_section"]
         IN  [k \in 1..Len(b3) |->
                 IF k \in 3..(Len(b3) - 1) THEN [b3[k] EXCEPT !.block_type = "content"]
                 ELSE b3[k]]
    ELSE blocks

\* extract_content_blocks, "Classify blocks based on position": the three
\* assignments in their order, then the loop over range(2, len - 1)
classify_blocks(blocks) ==
    IF Len(blocks) >= 3
    THEN LET b1 == [blocks EXCEPT ![1].block_type = "section_number"]
             b2 == [b1 EXCEPT ![2].block_type = "section_title"]
             b3 == [b2 EXCEPT ![Len(blocks)].block_type = "end_of_section"]
         IN  [k \in 1..Len(b3) |->
                 IF k \in 3..(Len(b3) - 1) THEN [b3[k] EXCEPT !.block_type = "content"]
                 ELSE b3[k]]
    ELSE blocks

\* SimpleContentExtractor.extract_content_blocks
SimpleExtractor_extract_content_blocks(doc) ==
    classify_blocks(extract_blocks_from(convert_to_json(doc), 1, <<>>))

\* ContentBlockExtractor.extract_content_blocks: the same, its ContentBlock
\* without the field numbering_id
Extractor_extract_content_blocks(doc) ==
    LET blocks == SimpleExtractor_extract_content_blocks(doc)
    IN  [k \in 1..Len(blocks) |->
            [ text         |-> blocks[k].text,
              level_number |-> blocks[k].level_number,
              block_type   |-> blocks[k].block_type,
              index        |-> blocks[k].index ]]

(***************************************************************************)
(* TextComparisonValidator                                                 *)
(***************************************************************************)

\* s.lower()
str_lower(s) ==
    LET upper == <<"A", "B", "C", "D", "E", "F", "G", "H", "I", "J", "K", "L", "M",
                   "N", "O", "P", "Q", "R", "S", "T", "U", "V", "W", "X", "Y", "Z">>
        lower == <<"a", "b", "c", "d", "e", "f", "g", "h", "i", "j", "k", "l", "m",
                   "n", "o", "p", "q", "r", "s", "t", "u", "v", "w", "x", "y", "z">>
    IN  [i \in 1..Len(s) |->
            IF s[i] \in Upper
            THEN lower[CHOOSE k \in 1..Len(upper) : upper[k] = s[i]]
            ELSE s[i]]

\* re.sub(r'\s+', ' ', s)
RECURSIVE CollapseSpace(_)
CollapseSpace(s) ==
    IF s = <<>> THEN <<>>
    ELSE IF s[1] \in Space
         THEN <<" ">> \o CollapseSpace(Drop(s, RunEnd(s, 1, Space) - 1))
         ELSE <<s[1]>> \o CollapseSpace(Tail(s))

\* clean_text_for_comparison; RemovePunctuation is re.sub(r'[^\w\s]', '', s)
clean_text_for_comparison(text, strategy) ==
    LET Kept(c) == c \in WordChar \cup Space
        RemovePunctuation(s) == SelectSeq(s, Kept)
    IN
    IF      strategy = "exact_match" THEN text
    ELSE IF strategy = "normalized_match" THEN Strip(CollapseSpace(text))
    ELSE IF strategy \in {"content_only_match", "fuzzy_match"}
         THEN str_lower(Strip(CollapseSpace(RemovePunctuation(text))))
    ELSE text

\* compare_texts, the body of its first loop: the kind of the pair ("exact",
\* "partial" or "mismatch", after the counter it adds to) and the comparison.
\* A difference is the tuple of the pieces of its message.
compare_line(word_text, text_file_content, i) ==
    LET Head50(s)  == IF Len(s) > 50 THEN Take(s, 50) ELSE s      \* s[:50]
        same       == word_text = text_file_content
        normalized == clean_text_for_comparison(word_text, "normalized_match")
                      = clean_text_for_comparison(text_file_content, "normalized_match")
        content    == clean_text_for_comparison(word_text, "content_only_match")
                      = clean_text_for_comparison(text_file_content, "content_only_match")
    IN  [ kind       |-> IF same THEN "exact"
                         ELSE IF normalized \/ content THEN "partial" ELSE "mismatch",
          comparison |->
              [ word_text         |-> word_text,
                text_file_content |-> text_file_content,
                line_number       |-> i,
                is_exact_match    |-> same,
                differences       |->
                    IF same THEN <<>>
                    ELSE IF normalized
                    THEN << <<"Normalized match (whitespace differences)">> >>
                    ELSE IF content
                    THEN << <<"Content match (punctuation differences)">> >>
                    ELSE << <<"Word: '", Head50(word_text), "...' vs Text: '",
                              Head50(text_file_content), "...'">> >> ] ]

\* compare_texts, the counters and the comparisons after one more comparison
\* of the given kind
counted(acc, kind, comparison) ==
    [ exact_matches   |-> acc.exact_matches + (IF kind = "exact" THEN 1 ELSE 0),
      partial_matches |-> acc.partial_matches + (IF kind = "partial" THEN 1 ELSE 0),
      mismatches      |-> acc.mismatches + (IF kind = "mismatch" THEN 1 ELSE 0),
      comparisons     |-> Append(acc.comparisons, comparison) ]

\* compare_texts, its first loop from line i on (lines count from 1)
RECURSIVE compare_from(_, _, _, _)
compare_from(word, text, i, acc) ==
    IF i > (IF Len(word) < Len(text) THEN Len(word) ELSE Len(text)) THEN acc
    ELSE LET c == compare_line(word[i], text[i], i)
         IN  compare_from(word, text, i + 1, counted(acc, c.kind, c.comparison))

\* compare_texts leaving the lines past the shorter list out of mismatches;
\* C30 tells the two apart.
RECURSIVE compare_remaining_uncounted(_, _, _, _)
compare_remaining_uncounted(word, text, i, acc) ==
    IF i > Len(word) /\ i > Len(text) THEN acc
    ELSE compare_remaining_uncounted(word, text, i + 1,
             [acc EXCEPT !.comparisons = Append(@,
                 [ word_text         |-> IF i <= Len(word) THEN word[i] ELSE <<>>,
                   text_file_content |-> IF i <= Len(text) THEN text[i] ELSE <<>>,
                   line_number       |-> i,
                   is_exact_match    |-> FALSE,
                   differences       |-> IF i <= Len(word)
                                         THEN << <<"Extra line in Word document">> >>
                                         ELSE << <<"Extra line in text file">> >> ])])

\* compare_texts, "Handle any remaining lines": the loop over the lines of the
\* longer list, from line i on; at most one of the lists has a line i
RECURSIVE compare_remaining(_, _, _, _)
compare_remaining(word, text, i, acc) ==
    IF i > Len(word) /\ i > Len(text) THEN acc
    ELSE compare_remaining(word, text, i + 1,
             counted(acc, "mismatch",
                 [ word_text         |-> IF i <= Len(word) THEN word[i] ELSE <<>>,
                   text_file_content |-> IF i <= Len(text) THEN text[i] ELSE <<>>,
                   line_number       |-> i,
                   is_exact_match    |-> FALSE,
                   differences       |-> IF i <= Len(word)
                                         THEN << <<"Extra line in Word document">> >>
                                         ELSE << <<"Extra line in text file">> >> ]))

\* compare_texts.  match_percentage, a quotient, is the pair of its numerator
\* and denominator; the 0 of the empty comparison is <<0, 1>>.
compare_texts(word, text) ==
    LET max_lines == IF Len(word) < Len(text) THEN Len(word) ELSE Len(text)
        first     == compare_from(word, text, 1,
                         [exact_matches |-> 0, partial_matches |-> 0, mismatches |-> 0,
                          comparisons |-> <<>>])
        all       == compare_remaining(word, text, max_lines + 1, first)
        total     == Len(all.comparisons)
    IN  [ total_lines      |-> total,
          exact_matches    |-> all.exact_matches,
          partial_matches  |-> all.partial_matches,
          mismatches       |-> all.mismatches,
          match_percentage |-> IF total > 0
                               THEN <<all.exact_matches + all.partial_matches, total>>
                               ELSE <<0, 1>>,
          details          |-> all.comparisons ]

(***************************************************************************)
(* The rebuilders on the detector's report                                 *)
(***************************************************************************)

\* CompleteXMLReconstructor.reconstruct_document on the detector's report
ReconstructDocument ==
    /\ "detector" \in done
    /\ "complete" \notin done
    /\ complete_docx' =
           Complete_create_word_document_xml(parse_paragraphs_from_json(all_paragraphs))
    /\ done' = done \cup {"complete"}
    /\ UNCHANGED <<wordDoc, paragraphs, sample_paragraphs, all_paragraphs, content_blocks,
                   enhanced_blocks, flexible_blocks, simple_blocks, txtLines,
                   expected_numbering, text_lines, numbered_lines, template_docx,
                   enhanced_simple, flexible_simple, docx, extractor_blocks,
                   simple_extractor_blocks, word_lines, file_lines, validation, raised>>

\* template_based_rebuilder.rebuild_document_from_json on the detector's report
RebuildDocumentFromJson ==
    /\ "detector" \in done
    /\ "template" \notin done
    /\ template_docx' = [ numbering_xml |-> Template_create_numbering_xml,
                          document_xml  |-> Template_create_document_xml(all_paragraphs) ]
    /\ done' = done \cup {"template"}
    /\ UNCHANGED <<wordDoc, paragraphs, sample_paragraphs, all_paragraphs, content_blocks,
                   enhanced_blocks, flexible_blocks, simple_blocks, txtLines,
                   expected_numbering, text_lines, numbered_lines, complete_docx,
                   enhanced_simple, flexible_simple, docx, extractor_blocks,
                   simple_extractor_blocks, word_lines, file_lines, validation, raised>>

NextRebuild ==
    \/ GenerateAnalysisReport
    \/ ReconstructDocument
    \/ RebuildDocumentFromJson

RebuildSpec == Init /\ [][NextRebuild]_vars

(***************************************************************************)
(* The converters on the analyzers' reports                                *)
(***************************************************************************)

\* convert_enhanced_to_simple on the report of EnhancedListAnalyzer: the file
\* is written, then the summary is printed
ConvertEnhancedToSimple ==
    /\ "enhanced" \in done \ raised
    /\ "enhanced_to_simple" \notin done
    /\ enhanced_simple' = simple_paragraphs(enhanced_blocks)
    /\ raised' = IF Enhanced_summary_raises(enhanced_simple')
                 THEN raised \cup {"enhanced_to_simple"} ELSE raised
    /\ done' = done \cup {"enhanced_to_simple"}
    /\ UNCHANGED <<wordDoc, paragraphs, sample_paragraphs, all_paragraphs, content_blocks,
                   enhanced_blocks, flexible_blocks, simple_blocks, txtLines,
                   expected_numbering, text_lines, numbered_lines, complete_docx,
                   template_docx, flexible_simple, docx, extractor_blocks,
                   simple_extractor_blocks, word_lines, file_lines, validation>>

\* convert_flexible_to_simple on the report of FlexibleListAnalyzer; its
\* summary reads p.get('list_number', '') and raises nothing
ConvertFlexibleToSimple ==
    /\ "flexible" \in done \ raised
    /\ "flexible_to_simple" \notin done
    /\ flexible_simple' = simple_paragraphs(flexible_blocks)
    /\ done' = done \cup {"flexible_to_simple"}
    /\ UNCHANGED <<wordDoc, paragraphs, sample_paragraphs, all_paragraphs, content_blocks,
                   enhanced_blocks, flexible_blocks, simple_blocks, txtLines,
                   expected_numbering, text_lines, numbered_lines, complete_docx,
                   template_docx, enhanced_simple, docx, extractor_blocks,
                   simple_extractor_blocks, word_lines, file_lines, validation, raised>>

NextConvert ==
    \/ GenerateAnalysisReport
    \/ EnhancedAnalyzeDocument
    \/ FlexibleAnalyzeDocument
    \/ ConvertEnhancedToSimple
    \/ ConvertFlexibleToSimple

ConvertSpec == Init /\ [][NextConvert]_vars

(***************************************************************************)
(* The content block extractors on a .docx file                            *)
(***************************************************************************)

\* the paragraphs of the file: paragraph.text ("", " ", "Foo" or " Foo "), and
\* the w:numPr under paragraph._p.pPr, <<>> when there is none
DocxParagraphs ==
    {[text |-> t, numPr |-> <<>>] : t \in { <<>>, <<" ">>, Foo, <<" ">> \o Foo \o <<" ">> }}
    \cup {[text |-> Foo, numPr |-> << [numId |-> 1, ilvl |-> l] >>] : l \in {0, 1, NoLevel}}

\* the longest .docx file, in paragraphs
MaxDocx == 4

\* no Word document, report or text file of the numbering scripts is there
ReportsIdle ==
    /\ wordDoc = <<>>
    /\ paragraphs = <<>>
    /\ sample_paragraphs = <<>>
    /\ all_paragraphs = <<>>
    /\ content_blocks = <<>>
    /\ enhanced_blocks = <<>>
    /\ flexible_blocks = <<>>
    /\ simple_blocks = <<>>
    /\ txtLines = <<>>
    /\ expected_numbering = <<>>
    /\ text_lines = <<>>
    /\ numbered_lines = <<>>

InitExtract ==
    /\ ReportsIdle
    /\ ToolsIdle
    /\ \E n \in 0..MaxDocx : docx \in [1..n -> DocxParagraphs]
    /\ word_lines = <<>>
    /\ file_lines = <<>>
    /\ done = {}
    /\ raised = {}

\* ContentBlockExtractor.extract_content_blocks
ExtractContentBlocks ==
    /\ "extractor" \notin done
    /\ extractor_blocks' = Extractor_extract_content_blocks(docx)
    /\ done' = done \cup {"extractor"}
    /\ UNCHANGED <<wordDoc, paragraphs, sample_paragraphs, all_paragraphs, content_blocks,
                   enhanced_blocks, flexible_blocks, simple_blocks, txtLines,
                   expected_numbering, text_lines, numbered_lines, complete_docx,
                   template_docx, enhanced_simple, flexible_simple, docx,
                   simple_extractor_blocks, word_lines, file_lines, validation, raised>>

\* SimpleContentExtractor.extract_content_blocks
SimpleExtractContentBlocks ==
    /\ "simple_extractor" \notin done
    /\ simple_extractor_blocks' = SimpleExtractor_extract_content_blocks(docx)
    /\ done' = done \cup {"simple_extractor"}
    /\ UNCHANGED <<wordDoc, paragraphs, sample_paragraphs, all_paragraphs, content_blocks,
                   enhanced_blocks, flexible_blocks, simple_blocks, txtLines,
                   expected_numbering, text_lines, numbered_lines, complete_docx,
                   template_docx, enhanced_simple, flexible_simple, docx,
                   extractor_blocks, word_lines, file_lines, validation, raised>>

NextExtract ==
    \/ ExtractContentBlocks
    \/ SimpleExtractContentBlocks

ExtractSpec == InitExtract /\ [][NextExtract]_vars

(***************************************************************************)
(* compare_texts on any two lists of lines                                 *)
(***************************************************************************)

\* lines to compare: "Foo", "Foo  foo", "Foo foo", "foo", "Foo." and ""
ComparedLines ==
    { Foo, Foo \o <<" ", " ", "f", "o", "o">>, Foo \o <<" ", "f", "o", "o">>,
      <<"f", "o", "o">>, Foo \o <<".">>, <<>> }

\* the longest list of lines
MaxLines == 2

InitCompare ==
    /\ ReportsIdle
    /\ ToolsIdle
    /\ docx = <<>>
    /\ \E n \in 0..MaxLines : word_lines \in [1..n -> ComparedLines]
    /\ \E n \in 0..MaxLines : file_lines \in [1..n -> ComparedLines]
    /\ done = {}
    /\ raised = {}

\* TextComparisonValidator.compare_texts
CompareTexts ==
    /\ "validator" \notin done
    /\ validation' = compare_texts(word_lines, file_lines)
    /\ done' = done \cup {"validator"}
    /\ UNCHANGED <<wordDoc, paragraphs, sample_paragraphs, all_paragraphs, content_blocks,
                   enhanced_blocks, flexible_blocks, simple_blocks, txtLines,
                   expected_numbering, text_lines, numbered_lines, complete_docx,
                   template_docx, enhanced_simple, flexible_simple, docx,
                   extractor_blocks, simple_extractor_blocks, word_lines, file_lines, raised>>

NextCompare == CompareTexts

CompareSpec == InitCompare /\ [][NextCompare]_vars

(***************************************************************************)
(* The forms of the pattern table, stated on the token itself              *)
(***************************************************************************)

IsDigits(s) == s # <<>> /\ \A i \in 1..Len(s) : s[i] \in Digit

\* N.0
FormMajorDecimal(t) == \E k \in 1..Len(t) : IsDigits(Take(t, k)) /\ Drop(t, k) = <<".", "0">>

\* N.NN
FormMinorDecimal(t) ==
    \E k \in 1..Len(t) : IsDigits(Take(t, k)) /\ At(t, k + 1) = "." /\ IsDigits(Drop(t, k + 1))

\* A.
FormUpperLetter(t) == Len(t) = 2 /\ t[1] \in Upper /\ t[2] = "."

\* N.
FormPlainDecimal(t) == \E k \in 1..Len(t) : IsDigits(Take(t, k)) /\ Drop(t, k) = <<".">>

\* a.
FormLowerLetter(t) == Len(t) = 2 /\ t[1] \in Lower /\ t[2] = "."

\* i., ii., iv.: lower-case roman-numeral letters and a dot
FormLowerRoman(t) ==
    Len(t) >= 2 /\ t[Len(t)] = "." /\ \A i \in 1..(Len(t) - 1) : t[i] \in RomanLower

\* the canonical level of the first of the five forms the token has, NoLevel
\* when it has none
CanonicalLevel(t) ==
    IF      FormMajorDecimal(t) THEN 0
    ELSE IF FormMinorDecimal(t) THEN 1
    ELSE IF FormUpperLetter(t)  THEN 2
    ELSE IF FormPlainDecimal(t) THEN 3
    ELSE IF FormLowerLetter(t)  THEN 4
    ELSE NoLevel

\* the numbering token of a paragraph of the report: list_number, else inferred_number
ParaToken(para) == StrOr(para.list_number, para.inferred_number)

(***************************************************************************)
(* Claims about the detector and the analyzers (specification Spec)        *)
(***************************************************************************)

\* C1: when an analyzer has run on the report of a document of n paragraphs
\* it has produced exactly n blocks, block i carrying index i (from 0), for
\* every n, also n > 20.
C1_OneBlockPerParagraph ==
    /\ "enhanced" \in done =>
           /\ Len(enhanced_blocks) = Len(wordDoc)
           /\ \A i \in 1..Len(enhanced_blocks) : enhanced_blocks[i].index = i - 1
    /\ "flexible" \in done =>
           /\ Len(flexible_blocks) = Len(wordDoc)
           /\ \A i \in 1..Len(flexible_blocks) : flexible_blocks[i].index = i - 1

\* C2: every paragraph the detector extracts and every block of the
\* classification pass that has a level has a non-empty numbering token.
C2_LevelImpliesToken ==
    /\ \A i \in 1..Len(paragraphs) :
           paragraphs[i].level # NoLevel =>
               Truthy(paragraphs[i].list_number) \/ Truthy(paragraphs[i].inferred_number)
    /\ \A i \in 1..Len(enhanced_blocks) :
           enhanced_blocks[i].level # NoLevel => Truthy(enhanced_blocks[i].numbering_pattern)

\* a paragraph that Word numbers with a non-empty string and whose text begins
\* with a token the detector can extract
ExplicitAndExtractable(w) ==
    /\ w.ListType # WD_LIST_NO_NUMBERING
    /\ w.ListString # <<>>
    /\ deduce_numbering_from_text(RStripChars(w.Text, ParagraphMarks)) # NoneStr

\* C3: for a paragraph with explicit numbering whose text also begins with an
\* extractable token, the detector and the analyzer give the explicit numbering
\* as the token and record no inferred token; an inferred token is recorded only
\* for a paragraph without explicit numbering.
C3_ExplicitPrecedence ==
    /\ \A i \in 1..Len(paragraphs) :
           /\ ExplicitAndExtractable(wordDoc[i]) =>
                  /\ paragraphs[i].list_number = wordDoc[i].ListString
                  /\ paragraphs[i].inferred_number = NoneStr
           /\ paragraphs[i].inferred_number # NoneStr => paragraphs[i].list_number = <<>>
    /\ \A i \in 1..Len(enhanced_blocks) :
           ExplicitAndExtractable(wordDoc[i]) =>
               /\ enhanced_blocks[i].numbering_pattern = wordDoc[i].ListString
               /\ enhanced_blocks[i].inferred_number = NoneStr

\* C3's case: the analyzer has classified such a paragraph
C3_Witness ==
    /\ "enhanced" \in done
    /\ \E i \in 1..Len(enhanced_blocks) :
           /\ ExplicitAndExtractable(wordDoc[i])
           /\ enhanced_blocks[i].numbering_pattern = wordDoc[i].ListString

\* a list item of the report that carries an explicit level
ExplicitLevelItem(para) == Truthy(ParaToken(para)) /\ para.level # NoLevel

\* C4 as claimed: every list item that carries an explicit level keeps it in
\* the output of all three analyzers.
C4_ExplicitLevelVerbatim ==
    /\ \A i \in 1..Len(enhanced_blocks) :
           ExplicitLevelItem(sample_paragraphs[i]) =>
               enhanced_blocks[i].level = sample_paragraphs[i].level
    /\ \A i \in 1..Len(simple_blocks) :
           ExplicitLevelItem(sample_paragraphs[i]) =>
               simple_blocks[i].level = sample_paragraphs[i].level
    /\ \A i \in 1..Len(flexible_blocks) :
           ExplicitLevelItem(sample_paragraphs[i]) =>
               flexible_blocks[i].level = sample_paragraphs[i].level

\* C4 amended: in EnhancedListAnalyzer and simple_enhanced_analyzer a list item
\* that carries an explicit level keeps it exactly when its token matches no
\* level pattern; a token that matches one gets the pattern's level. In
\* FlexibleListAnalyzer the list item that opens a run gets level 0 whatever
\* its explicit level.
C4_ExplicitLevelIsFallback ==
    /\ \A i \in 1..Len(flexible_blocks) :
           /\ ExplicitLevelItem(sample_paragraphs[i])
           /\ (i = 1 \/ ~Truthy(ParaToken(sample_paragraphs[i - 1])))
           => flexible_blocks[i].level = 0
    /\ \A i \in 1..Len(enhanced_blocks) :
           ExplicitLevelItem(sample_paragraphs[i]) =>
               enhanced_blocks[i].level =
                   IF infer_level_from_numbering(ParaToken(sample_paragraphs[i])) # NoLevel
                   THEN infer_level_from_numbering(ParaToken(sample_paragraphs[i]))
                   ELSE sample_paragraphs[i].level
    /\ \A i \in 1..Len(simple_blocks) :
           ExplicitLevelItem(sample_paragraphs[i]) =>
               simple_blocks[i].level =
                   IF infer_level_from_numbering(ParaToken(sample_paragraphs[i])) # NoLevel
                   THEN infer_level_from_numbering(ParaToken(sample_paragraphs[i]))
                   ELSE sample_paragraphs[i].level

\* C4's case: the three analyzers have run on a report that holds a list item
\* whose explicit level is kept, one whose explicit level the table replaces and
\* one whose explicit level 2 FlexibleListAnalyzer replaces by 0
C4_Witness ==
    /\ {"enhanced", "simple", "flexible"} \subseteq done
    /\ \E i \in 1..Len(flexible_blocks) :
           /\ sample_paragraphs[i].level = 2
           /\ flexible_blocks[i].is_list_item
           /\ flexible_blocks[i].level = 0
    /\ \E i \in 1..Len(enhanced_blocks) :
           /\ ExplicitLevelItem(sample_paragraphs[i])
           /\ infer_level_from_numbering(ParaToken(sample_paragraphs[i])) = NoLevel
           /\ enhanced_blocks[i].level = 2
    /\ \E i \in 1..Len(enhanced_blocks) :
           /\ ExplicitLevelItem(sample_paragraphs[i])
           /\ infer_level_from_numbering(ParaToken(sample_paragraphs[i])) # NoLevel
           /\ enhanced_blocks[i].level # sample_paragraphs[i].level

\* a list item of the report with no explicit level whose token matches no
\* level pattern
UnclassifiableItem(para) ==
    /\ Truthy(ParaToken(para))
    /\ para.level = NoLevel
    /\ infer_level_from_numbering(ParaToken(para)) = NoLevel

\* C5 as claimed: such an item leaves the pass with no level, its token and
\* is_list_item = true.
C5_NoDefaultLevel ==
    /\ \A i \in 1..Len(enhanced_blocks) :
           UnclassifiableItem(sample_paragraphs[i]) =>
               /\ enhanced_blocks[i].level = NoLevel
               /\ enhanced_blocks[i].numbering_pattern = ParaToken(sample_paragraphs[i])
               /\ enhanced_blocks[i].is_list_item
    /\ \A i \in 1..Len(simple_blocks) :
           UnclassifiableItem(sample_paragraphs[i]) =>
               /\ simple_blocks[i].level = NoLevel
               /\ simple_blocks[i].numbering_pattern = ParaToken(sample_paragraphs[i])
               /\ simple_blocks[i].is_list_item

\* C5 amended: such an item leaves the pass with the default level 0, its
\* token and is_list_item = true.
C5_DefaultLevelZero ==
    /\ \A i \in 1..Len(enhanced_blocks) :
           UnclassifiableItem(sample_paragraphs[i]) =>
               /\ enhanced_blocks[i].level = 0
               /\ enhanced_blocks[i].numbering_pattern = ParaToken(sample_paragraphs[i])
               /\ enhanced_blocks[i].is_list_item
    /\ \A i \in 1..Len(simple_blocks) :
           UnclassifiableItem(sample_paragraphs[i]) =>
               /\ simple_blocks[i].level = 0
               /\ simple_blocks[i].numbering_pattern = ParaToken(sample_paragraphs[i])
               /\ simple_blocks[i].is_list_item

\* C5's case: both analyzers have classified an item whose token "1)" has none
\* of the table's forms
C5_Witness ==
    /\ {"enhanced", "simple"} \subseteq done
    /\ \E i \in 1..Len(enhanced_blocks) :
           /\ UnclassifiableItem(sample_paragraphs[i])
           /\ ParaToken(sample_paragraphs[i]) = <<"1", ")">>
           /\ simple_blocks[i].is_list_item

\* a list item of the report with no explicit level whose token is a bare
\* token of one of the table's forms
BareRecognizedItem(para) ==
    /\ Truthy(ParaToken(para))
    /\ para.level = NoLevel
    /\ CanonicalLevel(ParaToken(para)) # NoLevel

\* C7: such an item gets the canonical level of its form ("1.02" -> 1,
\* "A." -> 2, "3." -> 3) in EnhancedListAnalyzer and simple_enhanced_analyzer.
C7_BareTokenLevel ==
    /\ \A i \in 1..Len(enhanced_blocks) :
           BareRecognizedItem(sample_paragraphs[i]) =>
               enhanced_blocks[i].level = CanonicalLevel(ParaToken(sample_paragraphs[i]))
    /\ \A i \in 1..Len(simple_blocks) :
           BareRecognizedItem(sample_paragraphs[i]) =>
               simple_blocks[i].level = CanonicalLevel(ParaToken(sample_paragraphs[i]))

\* a text "(c) content": a parenthesized digit or letter, a space, content
ParenthesizedText(t) ==
    /\ Len(t) >= 5
    /\ t[1] = "(" /\ t[2] \in Digit \cup Letter /\ t[3] = ")" /\ t[4] = " "
    /\ t[5] \notin Space

\* C10: for an unnumbered paragraph whose text is "(c) content" the detector
\* extracts the token "(c)" with both parentheses, and the cleaned content is
\* the content alone.
C10_ParenthesizedToken ==
    \A i \in 1..Len(paragraphs) :
        (paragraphs[i].list_number = <<>> /\ ParenthesizedText(paragraphs[i].text)) =>
            /\ paragraphs[i].inferred_number = Take(paragraphs[i].text, 3)
            /\ paragraphs[i].cleaned_content = Drop(paragraphs[i].text, 4)

(***************************************************************************)
(* Claims about the text-file matchers (specification TextSpec)            *)
(***************************************************************************)

\* i., IV.: roman-numeral letters of either case and a dot
FormRoman(t) ==
    Len(t) >= 2 /\ t[Len(t)] = "." /\ \A i \in 1..(Len(t) - 1) : t[i] \in RomanAnyCase

SameForm(t1, t2) ==
    \/ FormMajorDecimal(t1) /\ FormMajorDecimal(t2)
    \/ /\ FormMinorDecimal(t1) /\ ~FormMajorDecimal(t1)
       /\ FormMinorDecimal(t2) /\ ~FormMajorDecimal(t2)
    \/ FormPlainDecimal(t1) /\ FormPlainDecimal(t2)

\* C8: two tokens that differ only in their digits ("1.", "10.", "47.", or
\* "1.01", "1.10") get the same level from determine_level,
\* determine_level_manual and determine_level_from_numbering.
C8_LevelIgnoresDigits ==
    /\ \A i, j \in 1..Len(numbered_lines) :
           SameForm(numbered_lines[i].numbering, numbered_lines[j].numbering) =>
               numbered_lines[i].level = numbered_lines[j].level
    /\ \A i, j \in 1..Len(text_lines) :
           SameForm(text_lines[i].numbering, text_lines[j].numbering) =>
               text_lines[i].level = text_lines[j].level
    /\ \A i, j \in 1..Len(expected_numbering) :
           SameForm(expected_numbering[i].expected_number, expected_numbering[j].expected_number) =>
               expected_numbering[i].level = expected_numbering[j].level

\* C9: every lower-case roman token ("i.", "ii.", "iv.") is classified at
\* level 5 by the level tables.
C9_LowerRomanLevel5 ==
    /\ \A i \in 1..Len(expected_numbering) :
           FormLowerRoman(expected_numbering[i].expected_number) =>
               expected_numbering[i].level = 5
    /\ \A i \in 1..Len(text_lines) :
           (text_lines[i].pattern_matched = "pattern" /\ FormLowerRoman(text_lines[i].numbering)) =>
               text_lines[i].level = 5

\* a line "<uppercase letter>. <content>"
UpperLetterLine(line) ==
    /\ Len(line) >= 4
    /\ line[1] \in Upper /\ line[2] = "." /\ line[3] = " " /\ line[4] \notin Space

\* C11: for every line "<uppercase letter>. <content>" of the file, whatever
\* the content, DirectTextMatcher records the token "<letter>.", the whole
\* content as the remainder, and level 2.
C11_UpperLetterLine ==
    "direct_matcher" \in done =>
        \A i \in 1..Len(txtLines) :
            UpperLetterLine(Strip(txtLines[i])) =>
                \E j \in 1..Len(numbered_lines) :
                    /\ numbered_lines[j].line_number = i
                    /\ numbered_lines[j].numbering = Take(Strip(txtLines[i]), 2)
                    /\ numbered_lines[j].content = Drop(Strip(txtLines[i]), 3)
                    /\ numbered_lines[j].level = 2

\* the first word of a line: the characters before its first whitespace
FirstWord(line) == Take(line, RunEnd(line, 1, WordChar \cup {".", "(", ")", "-"}) - 1)

\* a line of prose: its first word is two or more letters and is no roman numeral
ProseLine(line) ==
    /\ Len(FirstWord(line)) >= 2
    /\ \A k \in 1..Len(FirstWord(line)) : FirstWord(line)[k] \in Letter
    /\ \E k \in 1..Len(FirstWord(line)) : FirstWord(line)[k] \notin RomanAnyCase

\* C12: a line of prose ("No Foo") yields no numbering token in any extractor:
\* no tool records an entry for it.
C12_ProseHasNoToken ==
    \A i \in 1..Len(txtLines) :
        ProseLine(Strip(txtLines[i])) =>
            /\ \A j \in 1..Len(text_lines) : text_lines[j].line_number # i
            /\ \A j \in 1..Len(numbered_lines) : numbered_lines[j].line_number # i
            /\ \A j \in 1..Len(expected_numbering) : expected_numbering[j].line_number # i

\* the record's token was extracted from its own text: the text, after leading
\* whitespace, begins with the token followed by a tab or a space
TokenFromText(para) ==
    /\ Truthy(ParaToken(para))
    /\ StartsWith(LStrip(para.text), ParaToken(para))
    /\ At(LStrip(para.text), Len(ParaToken(para)) + 1) \in {"\t", " "}

\* the text with the token and the whitespace run after it removed
TextAfterToken(para) == Strip(Drop(LStrip(para.text), Len(ParaToken(para))))

\* C13: for every paragraph whose token was extracted from its own text the
\* cleaned content is the text with the token and the whitespace run after it
\* removed, in the detector, EnhancedListAnalyzer and FlexibleListAnalyzer.
C13_TokenRemoved ==
    /\ \A i \in 1..Len(paragraphs) :
           (Truthy(paragraphs[i].inferred_number) /\ TokenFromText(paragraphs[i])) =>
               paragraphs[i].cleaned_content = TextAfterToken(paragraphs[i])
    /\ \A i \in 1..Len(enhanced_blocks) :
           TokenFromText(sample_paragraphs[i]) =>
               enhanced_blocks[i].cleaned_content = TextAfterToken(sample_paragraphs[i])
    /\ \A i \in 1..Len(flexible_blocks) :
           TokenFromText(sample_paragraphs[i]) =>
               flexible_blocks[i].cleaned_content = TextAfterToken(sample_paragraphs[i])

\* the record has a token and its text does not begin with it
TokenNotAtStart(para) ==
    Truthy(ParaToken(para)) /\ ~StartsWith(para.text, ParaToken(para))

\* C14: when the numbering token does not occur at the start of the text, the
\* cleaned content is the trimmed text unchanged, in EnhancedListAnalyzer and
\* simple_enhanced_analyzer.
C14_TextKeptWithoutPrefix ==
    /\ \A i \in 1..Len(enhanced_blocks) :
           TokenNotAtStart(sample_paragraphs[i]) =>
               enhanced_blocks[i].cleaned_content = Strip(sample_paragraphs[i].text)
    /\ \A i \in 1..Len(simple_blocks) :
           TokenNotAtStart(sample_paragraphs[i]) =>
               simple_blocks[i].cleaned_content = Strip(sample_paragraphs[i].text)

\* C14's case: both analyzers have cleaned "Foo A.", numbered "A." by Word: the
\* token occurs only later in the text
C14_Witness ==
    /\ {"enhanced", "simple"} \subseteq done
    /\ \E i \in 1..Len(enhanced_blocks) :
           /\ sample_paragraphs[i].list_number = <<"A", ".">>
           /\ sample_paragraphs[i].text = Foo \o <<" ", "A", ".">>
           /\ enhanced_blocks[i].cleaned_content = Foo \o <<" ", "A", ".">>
           /\ simple_blocks[i].cleaned_content = Foo \o <<" ", "A", ".">>

\* C15: when a paragraph has no numbering token, explicit or inferred, its
\* cleaned content is its text with leading and trailing whitespace trimmed, in
\* EnhancedListAnalyzer and FlexibleListAnalyzer.
C15_NoTokenOnlyTrims ==
    /\ \A i \in 1..Len(enhanced_blocks) :
           ~Truthy(ParaToken(sample_paragraphs[i])) =>
               enhanced_blocks[i].cleaned_content = Strip(sample_paragraphs[i].text)
    /\ \A i \in 1..Len(flexible_blocks) :
           ~Truthy(ParaToken(sample_paragraphs[i])) =>
               flexible_blocks[i].cleaned_content = Strip(sample_paragraphs[i].text)

\* C15's case: both analyzers have cleaned the unnumbered text " Foo "
C15_Witness ==
    /\ {"enhanced", "flexible"} \subseteq done
    /\ \E i \in 1..Len(enhanced_blocks) :
           /\ ~Truthy(ParaToken(sample_paragraphs[i]))
           /\ sample_paragraphs[i].text = <<" ">> \o Foo \o <<" ">>
           /\ enhanced_blocks[i].cleaned_content = Foo
           /\ flexible_blocks[i].cleaned_content = Foo

\* C16: in every output block is_list_item is true exactly when the block's
\* numbering_pattern is present and non-empty.
C16_ListItemIffToken ==
    /\ \A i \in 1..Len(enhanced_blocks) :
           enhanced_blocks[i].is_list_item <=> Truthy(enhanced_blocks[i].numbering_pattern)
    /\ \A i \in 1..Len(flexible_blocks) :
           flexible_blocks[i].is_list_item <=> Truthy(flexible_blocks[i].numbering_pattern)
    /\ \A i \in 1..Len(simple_blocks) :
           simple_blocks[i].is_list_item <=> Truthy(simple_blocks[i].numbering_pattern)

\* C16's case: the analyzers have classified a report that holds a paragraph
\* with an inferred token, one with an explicit token or none
C16_Witness ==
    /\ {"enhanced", "flexible"} \subseteq done
    /\ \E i \in 1..Len(enhanced_blocks) :
           /\ Truthy(sample_paragraphs[i].inferred_number)
           /\ enhanced_blocks[i].is_list_item /\ flexible_blocks[i].is_list_item
    /\ \E i \in 1..Len(enhanced_blocks) :
           /\ ~Truthy(sample_paragraphs[i].inferred_number)
           /\ ~enhanced_blocks[i].is_list_item /\ ~flexible_blocks[i].is_list_item

\* C17: cleaning is idempotent with respect to extraction: when the detector
\* has inferred a token from a text "token, separator, content", extracting a
\* token again from the cleaned content yields none.
C17_CleanedHasNoToken ==
    \A i \in 1..Len(paragraphs) :
        Truthy(paragraphs[i].inferred_number) =>
            deduce_numbering_from_text(paragraphs[i].cleaned_content) = NoneStr

\* C19 as claimed: a paragraph whose text is empty or whitespace-only is
\* classified with is_list_item = false and cleaned content "", whatever its
\* other fields.
C19_EmptyTextNeverListItem ==
    \A i \in 1..Len(enhanced_blocks) :
        Strip(sample_paragraphs[i].text) = <<>> =>
            /\ ~enhanced_blocks[i].is_list_item
            /\ enhanced_blocks[i].cleaned_content = <<>>

\* C19 amended: a paragraph whose text is empty or whitespace-only gets no
\* inferred token and cleaned content ""; it is a list item exactly when it
\* carries explicit numbering.
C19_EmptyTextListItemIffExplicit ==
    /\ \A i \in 1..Len(paragraphs) :
           Strip(paragraphs[i].text) = <<>> => paragraphs[i].inferred_number = NoneStr
    /\ \A i \in 1..Len(enhanced_blocks) :
           Strip(sample_paragraphs[i].text) = <<>> =>
               /\ enhanced_blocks[i].is_list_item <=> Truthy(sample_paragraphs[i].list_number)
               /\ enhanced_blocks[i].cleaned_content = <<>>

\* C19's case: the analyzer has classified an empty paragraph that Word numbers
\* "A."
C19_Witness ==
    /\ "enhanced" \in done
    /\ \E i \in 1..Len(enhanced_blocks) :
           /\ sample_paragraphs[i].text = <<>>
           /\ sample_paragraphs[i].list_number = <<"A", ".">>
           /\ enhanced_blocks[i].is_list_item
           /\ enhanced_blocks[i].cleaned_content = <<>>

\* the four fields of a block that the classification of a paragraph decides
Classification(block) ==
    <<block.numbering_pattern, block.level, block.cleaned_content, block.is_list_item>>

\* C20: in EnhancedListAnalyzer the numbering token, level, cleaned content and
\* is_list_item of block i depend only on paragraph i: they are those the
\* analyzer gives the paragraph when it is the only one of the report, whatever
\* the other paragraphs are.
C20_ClassifiedIndependently ==
    \A i \in 1..Len(enhanced_blocks) :
        Classification(enhanced_blocks[i]) =
            Classification(Enhanced_analyze_document(<<sample_paragraphs[i]>>)[1])

\* C20's case: the analyzer has classified two adjacent list items of one list
\* group and given them different levels
C20_Witness ==
    /\ "enhanced" \in done
    /\ \E i \in 1..(Len(enhanced_blocks) - 1) :
           /\ enhanced_blocks[i].is_list_item /\ enhanced_blocks[i + 1].is_list_item
           /\ enhanced_blocks[i].list_id = enhanced_blocks[i + 1].list_id
           /\ enhanced_blocks[i].level # enhanced_blocks[i + 1].level

(***************************************************************************)
(* Claims about the analyzers on any report (specification RecordSpec)     *)
(***************************************************************************)

\* C18: the classification pass is total: whatever the records hold, also
\* missing and null fields, no analyzer ends in an exception and each one that
\* has run has produced one block per record.
C18_PassIsTotal ==
    /\ raised = {}
    /\ "enhanced" \in done => Len(enhanced_blocks) = Len(sample_paragraphs)
    /\ "simple" \in done => Len(simple_blocks) = Len(sample_paragraphs)

(***************************************************************************)
(* Claims about looks_like_numbering (specification TextSpec)              *)
(***************************************************************************)

\* s with every character that is no digit and no letter removed
AlphaNumeric(s) == SelectSeq(s, LAMBDA ch : ch \in Digit \cup Letter)

\* the strings the claim lets through: stripped of non-alphanumeric characters
\* they are non-empty and all digits, all uppercase, all lowercase, all
\* roman-numeral letters, digits then letters, or letters then digits
LooksLikeNumberingAsClaimed(s) ==
    LET c == AlphaNumeric(s)
        d == RunEnd(c, 1, Digit)
        l == RunEnd(c, 1, Letter)
    IN  /\ c # <<>>
        /\ \/ \A i \in 1..Len(c) : c[i] \in Digit
           \/ \A i \in 1..Len(c) : c[i] \in Upper
           \/ \A i \in 1..Len(c) : c[i] \in Lower
           \/ \A i \in 1..Len(c) : c[i] \in RomanAnyCase
           \/ d > 1 /\ d <= Len(c) /\ \A i \in d..Len(c) : c[i] \in Letter
           \/ l > 1 /\ l <= Len(c) /\ \A i \in l..Len(c) : c[i] \in Digit

\* C21: looks_like_numbering accepts a string only when it has one of the
\* claimed shapes: every token that the manual detection of
\* NumberingPatternMatcher or the separator split of DirectTextMatcher has
\* accepted has one, so no mixed-case word is among them.
C21_AcceptedTokensLookLikeNumbering ==
    /\ \A i \in 1..Len(text_lines) :
           text_lines[i].pattern_matched = "manual_detection" =>
               LooksLikeNumberingAsClaimed(text_lines[i].numbering)
    /\ \A i \in 1..Len(numbered_lines) :
           LooksLikeNumberingAsClaimed(numbered_lines[i].numbering)

(***************************************************************************)
(* Claims about FlexibleListAnalyzer (specification Spec)                  *)
(***************************************************************************)

\* two different tokens of one form, which differ only in number or letter
SiblingTokens(t1, t2) ==
    /\ t1 # t2
    /\ \/ SameForm(t1, t2)
       \/ FormUpperLetter(t1) /\ FormUpperLetter(t2)
       \/ FormLowerLetter(t1) /\ FormLowerLetter(t2)

\* C22: in the contextual level assignment two consecutive list items whose
\* tokens have the same form and differ only in number or letter ("1.01" then
\* "1.02", "1." then "2.", "A." then "B.") receive the same level.
C22_SiblingsShareLevel ==
    \A i \in 1..(Len(flexible_blocks) - 1) :
        (/\ flexible_blocks[i].is_list_item
         /\ flexible_blocks[i + 1].is_list_item
         /\ SiblingTokens(flexible_blocks[i].numbering_pattern,
                          flexible_blocks[i + 1].numbering_pattern)) =>
            flexible_blocks[i + 1].level = flexible_blocks[i].level

\* block i of the Flexible output opens a run of list items
OpensRun(i) ==
    /\ flexible_blocks[i].is_list_item
    /\ (i = 1 \/ ~flexible_blocks[i - 1].is_list_item)

\* C23: every non-list paragraph resets the context: the first list item of
\* the document and the first list item after any non-list paragraph have level
\* 0, whatever their token and the levels reached before; a non-list paragraph
\* keeps level None.
C23_RunOpensAtLevelZero ==
    \A i \in 1..Len(flexible_blocks) :
        /\ OpensRun(i) => flexible_blocks[i].level = 0
        /\ ~flexible_blocks[i].is_list_item => flexible_blocks[i].level = NoLevel

\* C23's case: a run has reached level 1, a non-list paragraph follows, and the
\* list item after it is at level 0
C23_Witness ==
    /\ "flexible" \in done
    /\ \E i \in 1..(Len(flexible_blocks) - 2) :
           /\ flexible_blocks[i].is_list_item /\ flexible_blocks[i].level >= 1
           /\ ~flexible_blocks[i + 1].is_list_item /\ flexible_blocks[i + 1].level = NoLevel
           /\ flexible_blocks[i + 2].is_list_item /\ flexible_blocks[i + 2].level = 0

\* C24: every list item's level is >= 0; when the paragraph before it is a list
\* item too, the level differs from that item's level by at most 1 and is the
\* level the context gives when it holds that item alone.
C24_LevelStepsByOne ==
    \A i \in 1..Len(flexible_blocks) :
        flexible_blocks[i].is_list_item =>
            /\ flexible_blocks[i].level >= 0
            /\ (i > 1 /\ flexible_blocks[i - 1].is_list_item) =>
                   /\ flexible_blocks[i].level - flexible_blocks[i - 1].level \in {-1, 0, 1}
                   /\ flexible_blocks[i].level =
                          Flexible_infer_from_stack(
                              flexible_blocks[i].numbering_pattern,
                              << <<flexible_blocks[i - 1].numbering_pattern,
                                   flexible_blocks[i - 1].level>> >>,
                              1, flexible_blocks[i - 1].level)

\* C24's case: a run of three list items in which the level goes up by one and
\* comes down by one
C24_Witness ==
    /\ "flexible" \in done
    /\ \E i \in 1..(Len(flexible_blocks) - 2) :
           /\ flexible_blocks[i].is_list_item
           /\ flexible_blocks[i + 1].is_list_item
           /\ flexible_blocks[i + 2].is_list_item
           /\ flexible_blocks[i + 1].level = flexible_blocks[i].level + 1
           /\ flexible_blocks[i + 2].level = flexible_blocks[i + 1].level - 1

\* the number of runs of list items that open at or before block i
RunsUpTo(i) == Cardinality({j \in 1..i : OpensRun(j)})

\* C25: after FlexibleListAnalyzer.analyze_document the list groups are the
\* maximal contiguous runs of list items, as in EnhancedListAnalyzer: a list
\* item's list_id is the position (from 1) of its run, a non-list block has
\* list_id None, and no run is split at a change of level.
C25_GroupsAreRuns ==
    /\ \A i \in 1..Len(flexible_blocks) :
           flexible_blocks[i].list_id =
               IF flexible_blocks[i].is_list_item THEN RunsUpTo(i) ELSE NoListId
    /\ "enhanced" \in done =>
           \A i \in 1..Len(flexible_blocks) :
               flexible_blocks[i].list_id = enhanced_blocks[i].list_id

\* C25's case: both analyzers have grouped a document with two runs, the first
\* of which changes level inside
C25_Witness ==
    /\ {"flexible", "enhanced"} \subseteq done
    /\ \E i \in 1..(Len(flexible_blocks) - 1) :
           /\ flexible_blocks[i].is_list_item /\ flexible_blocks[i + 1].is_list_item
           /\ flexible_blocks[i].level # flexible_blocks[i + 1].level
           /\ flexible_blocks[i].list_id = 1 /\ flexible_blocks[i + 1].list_id = 1
    /\ \E i \in 1..Len(flexible_blocks) : flexible_blocks[i].list_id = 2

(***************************************************************************)
(* Claims about the rebuilders (specification RebuildSpec)                 *)
(***************************************************************************)

\* every w:ilvl of the package's document.xml is a non-negative integer that a
\* w:lvl of its numbering.xml carries
LevelsDefined(package) ==
    \A k \in 1..Len(package.document_xml) :
        \A j \in 1..Len(package.document_xml[k].numPr) :
            /\ IsDigits(package.document_xml[k].numPr[j].ilvl)
            /\ \E l \in 1..Len(package.numbering_xml) :
                   package.numbering_xml[l].ilvl = package.document_xml[k].numPr[j].ilvl

\* C26: in every package a rebuilder writes, each w:ilvl of a numbered
\* paragraph in document.xml is a non-negative integer for which the
\* numbering.xml written alongside defines a w:lvl with the same w:ilvl.
C26_EmittedLevelsAreDefined ==
    /\ "complete" \in done => LevelsDefined(complete_docx)
    /\ "template" \in done => LevelsDefined(template_docx)

(***************************************************************************)
(* Claims about consolidate_content_blocks (specification Spec)            *)
(***************************************************************************)

\* the positions in paragraphs of the paragraphs whose text is not blank
NonBlankPositions ==
    LET NonBlank(i) == Strip(paragraphs[i].text) # <<>>
    IN  SelectSeq([i \in 1..Len(paragraphs) |-> i], NonBlank)

\* what a block stands for: its content, then its continuation blocks
BlockEntries(block) ==
    <<[text |-> block.content, block |-> block.index, starts |-> TRUE]>>
    \o [j \in 1..Len(block.continuation_blocks) |->
           [text |-> block.continuation_blocks[j], block |-> block.index, starts |-> FALSE]]

\* what content_blocks stands for, block after block
ConsolidatedEntries == Concat([k \in 1..Len(content_blocks) |-> BlockEntries(content_blocks[k])])

\* a paragraph with true or inferred numbering
HasNumbering(para) == Truthy(para.list_number) \/ Truthy(para.inferred_number)

\* C27: consolidate_content_blocks represents every paragraph with non-blank
\* text exactly once and in document order: a paragraph with true or inferred
\* numbering is the content of a new block, an unnumbered one is a continuation
\* block of the nearest preceding block, only an unnumbered paragraph that
\* precedes every block starts a block of type 'none', and the block indices
\* are 0..n-1 in creation order.
C27_EveryParagraphOnce ==
    "detector" \in done =>
        /\ Len(ConsolidatedEntries) = Len(NonBlankPositions)
        /\ \A k \in 1..Len(content_blocks) : content_blocks[k].index = k - 1
        /\ \A p \in 1..Len(NonBlankPositions) :
               LET para  == paragraphs[NonBlankPositions[p]]
                   entry == ConsolidatedEntries[p]
                   block == content_blocks[entry.block + 1]
               IN  /\ entry.text = para.text
                   /\ HasNumbering(para) =>
                          /\ entry.starts
                          /\ block.numbering = StrOr(para.list_number, para.inferred_number)
                          /\ block.numbering_type =
                                 IF Truthy(para.list_number) THEN "true" ELSE "inferred"
                          /\ block.level = para.level
                   /\ ~HasNumbering(para) =>
                          IF p = 1
                          THEN entry.starts /\ block.numbering_type = "none"
                               /\ block.numbering = <<>> /\ block.level = NoLevel
                          ELSE ~entry.starts
                               /\ entry.block = ConsolidatedEntries[p - 1].block

\* C27's case: a block of type 'none' with a continuation block, then a
\* numbered block with a continuation block
C27_Witness ==
    /\ "detector" \in done
    /\ Len(content_blocks) = 2
    /\ content_blocks[1].numbering_type = "none"
    /\ content_blocks[2].numbering_type = "inferred"
    /\ Len(content_blocks[1].continuation_blocks) = 1
    /\ Len(content_blocks[2].continuation_blocks) = 1

(***************************************************************************)
(* Claims about the converters (specification ConvertSpec)                 *)
(***************************************************************************)

\* one simple paragraph per block, with the block's index, level and token
OneParagraphPerBlock(simple, blocks) ==
    /\ Len(simple) = Len(blocks)
    /\ \A i \in 1..Len(blocks) :
           /\ simple[i].index = blocks[i].index
           /\ simple[i].level = blocks[i].level
           /\ simple[i].list_number = StrOr(blocks[i].numbering_pattern, <<>>)

\* C28: convert_enhanced_to_simple (and convert_flexible_to_simple), given an
\* analysis with any number of blocks, writes one simple paragraph per block,
\* preserving index, level and numbering token, and returns without raising.
C28_ConverterReturnsNormally ==
    /\ "enhanced_to_simple" \in done =>
           /\ OneParagraphPerBlock(enhanced_simple, enhanced_blocks)
           /\ "enhanced_to_simple" \notin raised
    /\ "flexible_to_simple" \in done =>
           /\ OneParagraphPerBlock(flexible_simple, flexible_blocks)
           /\ "flexible_to_simple" \notin raised

(***************************************************************************)
(* Claims about the content block extractors (specification ExtractSpec)   *)
(***************************************************************************)

\* the positions in the file of the paragraphs whose text is not blank
KeptPositions ==
    LET NonBlank(i) == Strip(docx[i].text) # <<>>
    IN  SelectSeq([i \in 1..Len(docx) |-> i], NonBlank)

\* the blocks are the paragraphs with non-blank text, in order, indexed from 0
\* and typed by their position
BlocksAsClaimed(blocks) ==
    LET n == Len(KeptPositions)
    IN  /\ Len(blocks) = n
        /\ \A k \in 1..n :
               /\ blocks[k].index = k - 1
               /\ blocks[k].text = Strip(docx[KeptPositions[k]].text)
               /\ blocks[k].block_type =
                      IF n < 3 THEN "content"
                      ELSE IF k = 1 THEN "section_number"
                      ELSE IF k = 2 THEN "section_title"
                      ELSE IF k = n THEN "end_of_section"
                      ELSE "content"

\* C29: extract_content_blocks keeps exactly the paragraphs with non-blank
\* text, indexed 0..n-1 in document order; when n >= 3, block 0 is
\* 'section_number', block 1 'section_title', block n-1 'end_of_section' and
\* the others 'content'; when n < 3 every block is 'content'.
C29_BlocksTypedByPosition ==
    /\ "extractor" \in done => BlocksAsClaimed(extractor_blocks)
    /\ "simple_extractor" \in done => BlocksAsClaimed(simple_extractor_blocks)

\* C29's case: a file of four paragraphs, one of them blank, gives three
\* blocks, none of type 'content'
C29_Witness ==
    /\ {"extractor", "simple_extractor"} \subseteq done
    /\ Len(docx) = 4
    /\ Len(extractor_blocks) = 3
    /\ Len(simple_extractor_blocks) = 3
    /\ \A k \in 1..3 : extractor_blocks[k].block_type # "content"

(***************************************************************************)
(* Claims about compare_texts (specification CompareSpec)                  *)
(***************************************************************************)

\* the kind of a comparison, read off what it records
IsExact(c) == c.is_exact_match /\ c.differences = <<>>
IsPartial(c) ==
    /\ ~c.is_exact_match
    /\ c.differences \in { << <<"Normalized match (whitespace differences)">> >>,
                           << <<"Content match (punctuation differences)">> >> }
IsMismatch(c) == ~c.is_exact_match /\ ~IsPartial(c)

\* C30: for any two line lists, compare_texts returns a result in which
\* total_lines is the longer list's length, every line position is counted in
\* exactly one of exact_matches, partial_matches and mismatches, every position
\* beyond the shorter list is a mismatch, and match_percentage is 0 when both
\* lists are empty.
C30_EveryLineCountedOnce ==
    "validator" \in done =>
        LET long  == IF Len(word_lines) > Len(file_lines) THEN Len(word_lines)
                     ELSE Len(file_lines)
            short == IF Len(word_lines) > Len(file_lines) THEN Len(file_lines)
                     ELSE Len(word_lines)
            d     == validation.details
        IN  /\ validation.total_lines = long
            /\ Len(d) = long
            /\ \A i \in 1..long : d[i].line_number = i
            /\ validation.exact_matches = Cardinality({i \in 1..long : IsExact(d[i])})
            /\ validation.partial_matches = Cardinality({i \in 1..long : IsPartial(d[i])})
            /\ validation.mismatches = Cardinality({i \in 1..long : IsMismatch(d[i])})
            /\ validation.exact_matches + validation.partial_matches
                   + validation.mismatches = validation.total_lines
            /\ \A i \in (short + 1)..long : IsMismatch(d[i])
            /\ long = 0 => validation.match_percentage = <<0, 1>>

\* C30's case: lists of different lengths whose common line matches partially
C30_Witness ==
    /\ "validator" \in done
    /\ Len(word_lines) = 2
    /\ Len(file_lines) = 1
    /\ validation.partial_matches = 1
    /\ validation.mismatches = 1

====
